---- MODULE Spec2Model ----
(***************************************************************************)
(* Model of the water-quality report verification scripts                  *)
(* (src/analyze_reports.py, src/cross_verify.py).                          *)
(*                                                                         *)
(* Text is modelled as a sequence of character tokens, one token per       *)
(* character of the Python string.  ASCII characters stand for themselves; *)
(* a CJK character is written as a short romanised token:                  *)
(*   锰 Mn   高 gao  酸 suan  盐 yan  指 zhi  数 shu  以 yi   计 ji          *)
(*   铬 Cr   六 liu  价 jia   总 zong 氨 an   氮 dan  硝 xiao 亚 ya          *)
(*   游 you  离 li   氯 Cl    二 er   氧 yang 化 hua  耗 hao  量 liang       *)
(*   水 shui 厂 chang 出 chu  原 yuan 管 guan 网 wang 末 mo   梢 shao        *)
(*   未 wei  检 jian 无 wu    浑 hun  浊 zhuo 度 du   溶 rong 解 jie         *)
(*   学 xue  需 xu   五 wu5   日 ri   生 sheng 挥 hui 发 fa   酚 fen         *)
(*   类 lei  苯 ben  硬 ying  磷 lin  放 fang 射 she  性 xing 阴 yin         *)
(*   子 zi   表 biao 面 mian  活 huo  剂 ji4  合 he   成 cheng 洗 xi        *)
(*   涤 di   农 nong 饮 yin3  村 cun  次 ci   供 gong  知 zhi1 库 ku          *)
(*   泵 beng 站 zhan 送 song  荣 rong2 昌 chang1 九 jiu 项 xiang 地 di4       *)
(*   三 san  应 ying4 急 ji2  样 yang4 转 zhuan 用 yong 报 bao  告 gao4       *)
(*   钙 gai  镁 mei  电 dian  导 dao  率 lv   温 wen  肉 rou  眼 yan3         *)
(*   可 ke   见 jian4 物 wu4  臭 chou 和 he2  味 wei4  第 di5  号 hao4         *)
(*   （ FL   ） FR   ＜ FLT   、 DUN  ， FCOMMA   α alpha   β beta            *)
(***************************************************************************)
EXTENDS Integers, Sequences, FiniteSets, TLC

VARIABLES
    pc,          \* position of the modelled run
    orig_name,   \* find_matching_report_item: the name being resolved
    test_items,  \* find_matching_report_item: the report's item list
    matched,     \* find_matching_report_item: index of the returned item, 0 = None
    orig_val,    \* value comparison: the original record's value string
    d_val,       \* value comparison: the report's result cell (column 4), None when blank
    result,      \* value comparison: the ReportItem's 'result' string
    tag,         \* cross_verify_reports (analyze_reports.py): outcome for the pair
    cv_issue,    \* main (cross_verify.py): outcome for the pair
    value_str,   \* digit-count rule: the value string of one sample and item
    sf,          \* digit-count rule: the count count_digits returned
    locals,      \* a single call: the arguments, locals and return value of the function
    directory,   \* main: the scanned directory (original-record file, report files)
    files,       \* main: sorted names of the report files
    registry,    \* main: sample registry read from the original record
    orig_test_data,      \* main: test data read from the original record
    issues_original,     \* main: issues of check_original_records
    all_info,            \* main: fname -> info, in insertion order
    issues_naming,       \* main: naming issues
    issues_numbering,    \* main: report-number issues
    issues_format,       \* main: format/template issues
    issues_consistency,  \* main: consistency issues
    issues_read_errors,  \* main: file read issues
    issues_cross_verify, \* main: cross-verification issues (data)
    issues_cross_logic,  \* main: cross-verification issues (logic)
    output,              \* main: the issue list written to the output file
    ori,                 \* main: args.ori, the registry-only mode
    now,                 \* the clock datetime.now() reads, in seconds
    generated,           \* main: the time written on the output's 生成时间 line
    previous             \* the output text of the run before this one, <<>> when none

resolveVars == <<orig_name, test_items, matched>>
valsVars == <<orig_val, d_val, result, tag, cv_issue, value_str, sf, locals>>
phase1Vars == <<registry, orig_test_data, issues_original>>
reportVars == <<issues_naming, issues_numbering, issues_format, issues_consistency,
                issues_read_errors>>
crossVars == <<issues_cross_verify, issues_cross_logic>>
runVars == <<ori, now, generated, previous>>
mainVars == <<directory, files, phase1Vars, all_info, reportVars, crossVars, output, runVars>>
vars == <<pc, resolveVars, valsVars, mainVars>>

\* the parts of the state a specification does not use
IdleResolve == orig_name = <<>> /\ test_items = <<>> /\ matched = 0
IdleDigits == value_str = <<>> /\ sf = 0
IdleLocals == locals = <<>>
IdleVals ==
    /\ orig_val = <<>> /\ d_val = <<>> /\ result = <<>> /\ tag = "idle" /\ cv_issue = "idle"
    /\ IdleDigits
    /\ IdleLocals
IdleMain ==
    /\ directory = <<>> /\ files = <<>>
    /\ registry = <<>> /\ orig_test_data = <<>> /\ issues_original = <<>>
    /\ all_info = <<>>
    /\ issues_naming = <<>> /\ issues_numbering = <<>> /\ issues_format = <<>>
    /\ issues_consistency = <<>> /\ issues_read_errors = <<>>
    /\ issues_cross_verify = <<>> /\ issues_cross_logic = <<>>
    /\ output = <<>>
    /\ ori = FALSE /\ now = 0 /\ generated = 0 /\ previous = <<>>

(***************************************************************************)
(* String primitives (Python str operations on token sequences)            *)
(***************************************************************************)

\* Python `None` where a string is expected
None == <<"#None">>

\* s[i:i+len(sub)] == sub
MatchAt(sub, s, i) ==
    /\ i + Len(sub) - 1 <= Len(s)
    /\ \A k \in 1..Len(sub) : s[i + k - 1] = sub[k]

\* Python `sub in s`
In(sub, s) == \E i \in 1..(Len(s) + 1) : MatchAt(sub, s, i)

\* Python s.startswith(sub)
StartsWith(s, sub) == MatchAt(sub, s, 1)

\* Python s.replace(old, ''), for a one-character old
RemoveChar(s, ch) == SelectSeq(s, LAMBDA c : c # ch)

\* Python s.replace(old, new), for one-character old and new
ReplaceChar(s, old, new) == [i \in 1..Len(s) |-> IF s[i] = old THEN new ELSE s[i]]

RECURSIVE LStrip(_)
LStrip(s) == IF s # <<>> /\ Head(s) = " " THEN LStrip(Tail(s)) ELSE s

RECURSIVE RStrip(_)
RStrip(s) == IF s # <<>> /\ s[Len(s)] = " " THEN RStrip(SubSeq(s, 1, Len(s) - 1)) ELSE s

\* Python s.strip()
Strip(s) == RStrip(LStrip(s))

OpenParen == {"(", "FL"}
CloseParen == {")", "FR"}

\* re.sub(r'[\(（].*?[\)）]', '', s) from position i on: a parenthesis group
\* runs from an opening character to the first closing character after it
RECURSIVE SubParenFrom(_, _)
SubParenFrom(s, i) ==
    IF i > Len(s) THEN <<>>
    ELSE IF s[i] \in OpenParen /\ \E j \in (i + 1)..Len(s) : s[j] \in CloseParen
         THEN LET j == CHOOSE j \in (i + 1)..Len(s) :
                          /\ s[j] \in CloseParen
                          /\ \A k \in (i + 1)..(j - 1) : s[k] \notin CloseParen
              IN SubParenFrom(s, j + 1)
         ELSE <<s[i]>> \o SubParenFrom(s, i + 1)

\* re.sub(r'[\(（].*?[\)）]', '', s).strip()
StripParenthetical(s) == Strip(SubParenFrom(s, 1))

(***************************************************************************)
(* Item names                                                              *)
(***************************************************************************)

Mn       == <<"Mn">>                                            \* 锰
MnSym    == <<"Mn", "(", "M", "n", ")">>                        \* 锰(Mn)
KMnO     == <<"gao", "Mn", "suan", "yan", "zhi", "shu">>        \* 高锰酸盐指数
KMnO_O2  == <<"gao", "Mn", "suan", "yan", "zhi", "shu", "(", "yi", "O", "2", "ji", ")">>
                                                                \* 高锰酸盐指数(以O2计)
HaoYang  == <<"hao", "yang", "liang", "(", "gao", "Mn", "suan", "yan", "zhi", "shu", ")">>
                                                                \* 耗氧量(高锰酸盐指数)
GaoMnSuanYan == <<"gao", "Mn", "suan", "yan">>                  \* 高锰酸盐
KMnO_COD == <<"gao", "Mn", "suan", "yan", "zhi", "shu", "(", "C", "O", "D", ")">>
                                                                \* 高锰酸盐指数(COD)
Cr6Orig  == <<"liu", "jia", "Cr">>                              \* 六价铬
Cr6Rep   == <<"Cr", "(", "liu", "jia", ")">>                    \* 铬(六价)
FreeCl   == <<"you", "li", "Cl">>                               \* 游离氯
ClO2     == <<"er", "yang", "hua", "Cl">>                       \* 二氧化氯
HunZhuoDu == <<"hun", "zhuo", "du">>                            \* 浑浊度

\* NAME_ALIAS as the set of its (key, value) pairs
NAME_ALIAS ==
    {  <<<<"gao", "Mn", "suan", "yan", "zhi", "shu">>,
         <<"gao", "Mn", "suan", "yan", "zhi", "shu", "(", "yi", "O", "2", "ji", ")">>>>,   \* 高锰酸盐指数 -> 高锰酸盐指数(以O2计)
       <<<<"rong", "jie", "yang">>,
         <<"rong", "jie", "yang">>>>,   \* 溶解氧 -> 溶解氧
       <<<<"hua", "xue", "xu", "yang", "liang">>,
         <<"hua", "xue", "xu", "yang", "liang", "(", "C", "O", "D", ")">>>>,   \* 化学需氧量 -> 化学需氧量(COD)
       <<<<"wu5", "ri", "sheng", "hua", "xu", "yang", "liang">>,
         <<"wu5", "ri", "sheng", "hua", "xu", "yang", "liang", "(", "B", "O", "D", "5", ")">>>>,   \* 五日生化需氧量 -> 五日生化需氧量(BOD5)
       <<<<"hui", "fa", "fen">>,
         <<"hui", "fa", "fen", "lei", "(", "yi", "ben", "fen", "ji", ")">>>>,   \* 挥发酚 -> 挥发酚类(以苯酚计)
       <<<<"liu", " ", "jia", " ", "Cr">>,
         <<"Cr", "(", "liu", "jia", ")">>>>,   \* 六 价 铬 -> 铬(六价)
       <<<<"liu", "jia", "Cr">>,
         <<"Cr", "(", "liu", "jia", ")">>>>,   \* 六价铬 -> 铬(六价)
       <<<<"zong", "ying", "du">>,
         <<"zong", "ying", "du", "(", "yi", "C", "a", "C", "O", "3", "ji", ")">>>>,   \* 总硬度 -> 总硬度(以CaCO3计)
       <<<<"an">>,
         <<"an", "(", "yi", "N", "ji", ")">>>>,   \* 氨 -> 氨(以N计)
       <<<<"an", "(", "yi", "N", "ji", ")">>,
         <<"an", "dan", "(", "N", "H", "3", "-", "N", ")">>>>,   \* 氨(以N计) -> 氨氮(NH3-N)
       <<<<"xiao", "suan", "yan">>,
         <<"xiao", "suan", "yan", "(", "yi", "N", "ji", ")">>>>,   \* 硝酸盐 -> 硝酸盐(以N计)
       <<<<"zong", "alpha">>,
         <<"zong", "alpha", "fang", "she", "xing">>>>,   \* 总α -> 总α放射性
       <<<<"zong", "a">>,
         <<"zong", "alpha", "fang", "she", "xing">>>>,   \* 总a -> 总α放射性
       <<<<"zong", "beta">>,
         <<"zong", "beta", "fang", "she", "xing">>>>,   \* 总β -> 总β放射性
       <<<<"zong", "lin">>,
         <<"zong", "lin", "(", "yi", "P", "ji", ")">>>>,   \* 总磷 -> 总磷(以P计)
       <<<<"zong", "dan">>,
         <<"zong", "dan", "(", "yi", "N", "ji", ")">>>>,   \* 总氮 -> 总氮(以N计)
       <<<<"an", "dan">>,
         <<"an", "dan", "(", "N", "H", "3", "-", "N", ")">>>>,   \* 氨氮 -> 氨氮(NH3-N)
       <<<<"yin", "li", "zi", "biao", "mian", "huo", "xing", "ji4">>,
         <<"yin", "li", "zi", "he", "cheng", "xi", "di", "ji4">>>>   \* 阴离子表面活性剂 -> 阴离子合成洗涤剂
    }

\* NAME_ALIAS.get(name): the alias, or None
AliasOf(name) ==
    IF \E p \in NAME_ALIAS : p[1] = name
    THEN (CHOOSE p \in NAME_ALIAS : p[1] = name)[2]
    ELSE None

\* CONFUSABLE_PARAMS: (short_name, long_name_keyword) pairs
CONFUSABLE_PARAMS == { <<Mn, GaoMnSuanYan>> }

\* a guard that never fires
is_false_substring_match_off(name_a, name_b) == FALSE

is_false_substring_match(name_a, name_b) ==
    LET clean_a == StripParenthetical(name_a)
        clean_b == StripParenthetical(name_b)
    IN \E p \in CONFUSABLE_PARAMS :
          \/ clean_a = p[1] /\ In(p[2], clean_b)
          \/ clean_b = p[1] /\ In(p[2], clean_a)

\* index of the first item of a list that satisfies P, 0 when there is none
FirstIndex(items, P(_)) ==
    IF \E i \in 1..Len(items) : P(items[i])
    THEN CHOOSE i \in 1..Len(items) :
            /\ P(items[i])
            /\ \A k \in 1..(i - 1) : ~P(items[k])
    ELSE 0

\* the body of the third loop of find_matching_report_item for one item
FuzzyMatch(o_name, i_name) ==
    \/ /\ In(o_name, i_name) \/ In(i_name, o_name)
       /\ ~is_false_substring_match(o_name, i_name)
    \/ LET clean_o == StripParenthetical(o_name)
           clean_i == StripParenthetical(i_name)
       IN /\ clean_o # <<>>
          /\ clean_i # <<>>
          /\ Len(clean_o) > 1
          /\ In(clean_o, clean_i) \/ In(clean_i, clean_o)
          /\ ~is_false_substring_match(o_name, i_name)

\* find_matching_report_item: index of the returned item in items, 0 for None
find_matching_report_item(items, o_name) ==
    LET exact == FirstIndex(items, LAMBDA it : it.name = o_name)
        alias == AliasOf(o_name)
        byAlias == IF alias # None /\ alias # <<>>
                   THEN FirstIndex(items, LAMBDA it : it.name = alias)
                   ELSE 0
    IN IF exact # 0 THEN exact
       ELSE IF byAlias # 0 THEN byAlias
       ELSE FirstIndex(items, LAMBDA it : FuzzyMatch(o_name, it.name))

(***************************************************************************)
(* Specification of name resolution                                        *)
(***************************************************************************)

MaxItems == 2

Names == {Mn, MnSym, KMnO, KMnO_O2, KMnO_COD, HaoYang, Cr6Orig, Cr6Rep, FreeCl}

Item(n, r) == [name |-> n, result |-> r]

NameLists == UNION { [1..n -> {Item(nm, <<>>) : nm \in Names}] : n \in 0..MaxItems }

InitResolve ==
    /\ pc = "resolve"
    /\ orig_name \in Names
    /\ test_items \in NameLists
    /\ matched = 0
    /\ IdleVals
    /\ IdleMain

Resolve ==
    /\ pc = "resolve"
    /\ matched' = find_matching_report_item(test_items, orig_name)
    /\ pc' = "resolved"
    /\ UNCHANGED <<orig_name, test_items, valsVars, mainVars>>

NextResolve == Resolve

SpecResolve == InitResolve /\ [][NextResolve]_vars

\* the name of the item find_matching_report_item returned
MatchedName == test_items[matched].name

\* C1: name resolution is reflexive under name-swap: when an original-record
\* name A resolves to the report name B, resolving B against the original
\* record's item set (already the set holding only A) returns A.
C1_NameSwapReflexive ==
    (pc = "resolved" /\ matched # 0) =>
        find_matching_report_item(<<Item(orig_name, <<>>)>>, MatchedName) = 1

\* C2 as stated: resolving a name whose parenthetical-stripped form is 锰 never
\* returns a candidate whose name contains 高锰酸盐, and resolving 锰 against a
\* set that contains 锰 returns the item named exactly 锰.
C2_NeverReturnsPermanganateName ==
    (pc = "resolved" /\ StripParenthetical(orig_name) = Mn) =>
        /\ matched # 0 => ~In(GaoMnSuanYan, MatchedName)
        /\ (orig_name = Mn /\ \E i \in 1..Len(test_items) : test_items[i].name = Mn)
              => (matched # 0 /\ MatchedName = Mn)

\* What the guard does give: a name whose parenthetical-stripped form is 锰 is
\* never resolved to a candidate whose parenthetical-stripped name contains
\* 高锰酸盐; a keyword inside a parenthetical is not seen by the guard.
GuardOnStrippedNames ==
    (pc = "resolved" /\ StripParenthetical(orig_name) = Mn) =>
        /\ matched # 0 => ~In(GaoMnSuanYan, StripParenthetical(MatchedName))
        /\ (\A i \in 1..Len(test_items) : test_items[i].name = KMnO) => matched = 0
        /\ (orig_name = Mn /\ \E i \in 1..Len(test_items) : test_items[i].name = Mn)
              => (matched # 0 /\ MatchedName = Mn)

\* the guard fired: 锰 was resolved against permanganate-index items only
GuardFired ==
    /\ pc = "resolved"
    /\ orig_name = Mn
    /\ Len(test_items) = MaxItems
    /\ \A i \in 1..Len(test_items) : test_items[i].name \in {KMnO, KMnO_O2}
    /\ matched = 0

(***************************************************************************)
(* Value strings and numbers                                               *)
(***************************************************************************)

\* numbers are kept as integers scaled by 10^Scale (Scale decimal places)
Scale == 6

RECURSIVE Pow10(_)
Pow10(n) == IF n = 0 THEN 1 ELSE 10 * Pow10(n - 1)

Digits == <<"0", "1", "2", "3", "4", "5", "6", "7", "8", "9">>
IsDigit(c) == \E d \in 1..10 : Digits[d] = c
DigitValue(c) == (CHOOSE d \in 1..10 : Digits[d] = c) - 1

RECURSIVE DigitsValue(_)
DigitsValue(s) ==
    IF s = <<>> THEN 0 ELSE 10 * DigitsValue(SubSeq(s, 1, Len(s) - 1)) + DigitValue(s[Len(s)])

NaN == [ok |-> FALSE, num |-> 0]

\* Python float(s) for the decimal notation: optional blanks around, an
\* optional sign, digits with at most one point, at least one digit.
\* A failed parse (ValueError) is NaN.
ParseFloat(str) ==
    LET s == Strip(str)
        signed == s # <<>> /\ Head(s) \in {"-", "+"}
        body == IF signed THEN Tail(s) ELSE s
        points == {i \in 1..Len(body) : body[i] = "."}
        wellFormed == /\ \A i \in 1..Len(body) : IsDigit(body[i]) \/ body[i] = "."
                      /\ Cardinality(points) <= 1
                      /\ \E i \in 1..Len(body) : IsDigit(body[i])
        p == IF points = {} THEN Len(body) + 1 ELSE CHOOSE i \in points : TRUE
        intPart == SubSeq(body, 1, p - 1)
        fracPart == SubSeq(body, p + 1, Len(body))
        magnitude == DigitsValue(intPart) * Pow10(Scale)
                     + DigitsValue(fracPart) * Pow10(Scale - Len(fracPart))
    IN IF wellFormed /\ Len(fracPart) <= Scale
       THEN [ok |-> TRUE,
             num |-> IF signed /\ Head(s) = "-" THEN 0 - magnitude ELSE magnitude]
       ELSE NaN

Abs(x) == IF x < 0 THEN 0 - x ELSE x

\* 0.0001, scaled.  The code compares binary floating-point numbers; the
\* scaled integers agree with it for every pair of decimal values whose
\* difference is not exactly 0.0001 (there the rounding of the operands
\* decides), and the value sets below hold no such pair.
Tolerance == Pow10(Scale - 4)

ListPunct == {"DUN", "FCOMMA", ","}

\* re.sub(r'[、，,]+$', '', s)
RECURSIVE StripListPunct(_)
StripListPunct(s) ==
    IF s # <<>> /\ s[Len(s)] \in ListPunct
    THEN StripListPunct(SubSeq(s, 1, Len(s) - 1))
    ELSE s

V_0     == <<"0">>                                   \* 0
V_ND    == <<"wei", "jian", "chu">>                  \* 未检出
V_Wu    == <<"wu">>                                  \* 无

\* re.sub(r'[、，,]+$', '', str(v).strip()).replace('＜', '<')
NormaliseValue(v) == ReplaceChar(StripListPunct(Strip(v)), "FLT", "<")

\* a comparator that also accepts a value that begins the other one
vals_match_prefix(o_val, r_val) ==
    IF o_val = None \/ r_val = None THEN TRUE
    ELSE LET o == NormaliseValue(o_val)
             r == NormaliseValue(r_val)
         IN \/ o = r
            \/ (o # <<>> /\ r # <<>> /\ (StartsWith(o, r) \/ StartsWith(r, o)))
            \/ (o = V_0 /\ r \in {V_ND, V_0}) \/ (r = V_0 /\ o \in {V_ND, V_0})

\* a comparator that takes 未检出 for 0 on the report's side only
vals_match_one_way(o_val, r_val) ==
    IF o_val = None \/ r_val = None THEN TRUE
    ELSE LET o == NormaliseValue(o_val)
             r == NormaliseValue(r_val)
         IN \/ o = r
            \/ (o = V_0 /\ r \in {V_ND, V_0})

\* vals_match of analyze_reports.py ("strict exact match")
vals_match(o_val, r_val) ==
    IF o_val = None \/ r_val = None THEN TRUE
    ELSE LET o == NormaliseValue(o_val)
             r == NormaliseValue(r_val)
         IN \/ o = r
            \/ (o = V_0 /\ r \in {V_ND, V_0}) \/ (r = V_0 /\ o \in {V_ND, V_0})

\* a comparator without the numeric comparison
cv_vals_match_strict(o_val, r_val) ==
    IF o_val = None \/ r_val = None THEN TRUE
    ELSE LET o == ReplaceChar(Strip(o_val), "FLT", "<")
             r == ReplaceChar(Strip(r_val), "FLT", "<")
         IN \/ o = r
            \/ (o = V_0 /\ r \in {V_ND, V_0}) \/ (r = V_0 /\ o \in {V_ND, V_0})

\* vals_match of cross_verify.py
cv_vals_match(o_val, r_val) ==
    IF o_val = None \/ r_val = None THEN TRUE
    ELSE LET o == ReplaceChar(Strip(o_val), "FLT", "<")
             r == ReplaceChar(Strip(r_val), "FLT", "<")
             of == ParseFloat(RemoveChar(o, "<"))
             rf == ParseFloat(RemoveChar(r, "<"))
         IN \/ o = r
            \/ of.ok /\ rf.ok /\ Abs(of.num - rf.num) < Tolerance
            \/ (o = V_0 /\ r \in {V_ND, V_0}) \/ (r = V_0 /\ o \in {V_ND, V_0})

\* a classifier that takes a failed parse for a formatting difference
is_value_diff_lenient(o_val, r_val) ==
    LET ov == ParseFloat(RemoveChar(NormaliseValue(o_val), "<"))
        rv == ParseFloat(RemoveChar(NormaliseValue(r_val), "<"))
    IN ov.ok /\ rv.ok /\ Abs(ov.num - rv.num) > Tolerance

\* is_value_diff of cross_verify_reports (analyze_reports.py)
is_value_diff(o_val, r_val) ==
    LET ov == ParseFloat(RemoveChar(NormaliseValue(o_val), "<"))
        rv == ParseFloat(RemoveChar(NormaliseValue(r_val), "<"))
    IN IF ov.ok /\ rv.ok THEN Abs(ov.num - rv.num) > Tolerance ELSE TRUE

\* format_cell_number for a text cell
format_cell_number(value) == IF value = None THEN <<>> ELSE Strip(value)

\* the 'result' of a ReportItem, read from the cell in column 4
ReadResult(cell) == IF cell # None THEN format_cell_number(cell) ELSE <<>>

(***************************************************************************)
(* Specification of the value comparison of one reconciled pair            *)
(***************************************************************************)

V_030    == <<"0", ".", "3", "0">>                    \* 0.30
V_03     == <<"0", ".", "3">>                         \* 0.3
V_0302   == <<"0", ".", "3", "0", "2">>               \* 0.302
V_030005 == <<"0", ".", "3", "0", "0", "0", "5">>     \* 0.30005
V_Lt005  == <<"<", "0", ".", "0", "5">>               \* <0.05
V_Lt0050 == <<"<", "0", ".", "0", "5", "0">>          \* <0.050
V_FLt005 == <<"FLT", "0", ".", "0", "5">>             \* ＜0.05
V_030Dun == <<"0", ".", "3", "0", "DUN">>             \* 0.30、

\* values the original record can hold (non-blank, trailing list punctuation removed)
OrigVals == {V_030, V_03, V_0302, V_Lt005, V_0, V_ND, V_Wu}

\* contents of a report's result cell; None is a blank cell
ResultCells == {None, V_030, V_03, V_030005, V_Lt0050, V_FLt005, V_0, V_ND, V_Wu, V_030Dun}

InitVals ==
    /\ pc = "read"
    /\ orig_val \in OrigVals
    /\ d_val \in ResultCells
    /\ result = <<>>
    /\ tag = "pending"
    /\ cv_issue = "pending"
    /\ IdleDigits
    /\ IdleLocals
    /\ IdleResolve
    /\ IdleMain

\* read_xlsx_report_info, line 198 (and read_report of cross_verify.py, line 224)
ReadResultCell ==
    /\ pc = "read"
    /\ result' = ReadResult(d_val)
    /\ pc' = "compare"
    /\ UNCHANGED <<orig_val, d_val, tag, cv_issue, value_str, sf, locals, resolveVars, mainVars>>

\* cross_verify_reports, section D, for one matched item
CompareInReports ==
    /\ pc = "compare"
    /\ tag = "pending"
    /\ tag' = IF vals_match(orig_val, result) THEN "none"
              ELSE IF is_value_diff(orig_val, result) THEN "value"
              ELSE "digits"
    /\ UNCHANGED <<pc, orig_val, d_val, result, cv_issue, value_str, sf, locals, resolveVars, mainVars>>

\* main of cross_verify.py, section C, for one matched item
CompareInCrossVerify ==
    /\ pc = "compare"
    /\ cv_issue = "pending"
    /\ cv_issue' = IF cv_vals_match(orig_val, result) THEN "none" ELSE "mismatch"
    /\ UNCHANGED <<pc, orig_val, d_val, result, tag, value_str, sf, locals, resolveVars, mainVars>>

NextVals == ReadResultCell \/ CompareInReports \/ CompareInCrossVerify

SpecVals == InitVals /\ [][NextVals]_vars

(***************************************************************************)
(* Specification of the digit count of one value                           *)
(***************************************************************************)

\* the string without one leading sign
DropSign(s) == IF s # <<>> /\ Head(s) \in {"-", "+"} THEN Tail(s) ELSE s

\* count_digits
count_digits(str) == Len(RemoveChar(DropSign(Strip(str)), "."))

\* digits with at most one point and at least one digit
IsDecimal(m) ==
    /\ \A i \in 1..Len(m) : IsDigit(m[i]) \/ m[i] = "."
    /\ Cardinality({i \in 1..Len(m) : m[i] = "."}) <= 1
    /\ \E i \in 1..Len(m) : IsDigit(m[i])

IsDigitString(x) == x # <<>> /\ \A i \in 1..Len(x) : IsDigit(x[i])

\* the position of the exponent mark of an unsigned literal, 0 when none
ExponentMark(b) ==
    IF \E k \in 1..Len(b) : b[k] \in {"e", "E"}
    THEN CHOOSE k \in 1..Len(b) : b[k] \in {"e", "E"} /\ \A j \in 1..(k - 1) : b[j] \notin {"e", "E"}
    ELSE 0

\* the decimal part of an unsigned literal, before the exponent mark
MantissaOf(b) == IF ExponentMark(b) = 0 THEN b ELSE SubSeq(b, 1, ExponentMark(b) - 1)

\* Python float(s) succeeds, for strings of digits, point, sign and exponent
\* mark: blanks around, an optional sign, a decimal and an optional exponent
\* (mark, optional sign, digits)
float_parses(str) ==
    /\ IsDecimal(MantissaOf(DropSign(Strip(str))))
    /\ ExponentMark(DropSign(Strip(str))) # 0 =>
          IsDigitString(DropSign(SubSeq(DropSign(Strip(str)),
                                        ExponentMark(DropSign(Strip(str))) + 1,
                                        Len(DropSign(Strip(str))))))

\* float(s) == 0 for a string that parses, its exponent within the range of
\* a double: every digit of the decimal part is 0
float_is_zero(str) ==
    \A i \in 1..Len(MantissaOf(DropSign(Strip(str)))) :
        MantissaOf(DropSign(Strip(str)))[i] \in {"0", "."}

\* check_original_records, lines 913-920: the value is passed to count_digits
PassedToCountDigits(val) ==
    /\ Strip(val) # <<>>
    /\ Head(ReplaceChar(Strip(val), "FLT", "<")) # "<"
    /\ ReplaceChar(Strip(val), "FLT", "<") \notin {V_ND, V_Wu, V_0}
    /\ float_parses(ReplaceChar(Strip(val), "FLT", "<"))
    /\ ~float_is_zero(ReplaceChar(Strip(val), "FLT", "<"))

MaxValueLen == 4
ValueChars == {"0", "1", "5", ".", "-", "e"}

\* the value strings of up to MaxValueLen characters, and 0.005, 17.6, 未检出
ValueStrings ==
    UNION {[1..n -> ValueChars] : n \in 0..MaxValueLen}
    \cup {<<"0", ".", "0", "0", "5">>, <<"1", "7", ".", "6">>, V_ND}

InitDigits ==
    /\ pc = "digit_rule"
    /\ value_str \in ValueStrings
    /\ sf = 0
    /\ orig_val = <<>> /\ d_val = <<>> /\ result = <<>> /\ tag = "idle" /\ cv_issue = "idle"
    /\ IdleLocals
    /\ IdleResolve
    /\ IdleMain

\* check_original_records, lines 913-921, for one value
CountDigits ==
    /\ pc = "digit_rule"
    /\ IF PassedToCountDigits(value_str)
       THEN /\ sf' = count_digits(ReplaceChar(Strip(value_str), "FLT", "<"))
            /\ pc' = "counted"
       ELSE /\ sf' = sf
            /\ pc' = "skipped"
    /\ UNCHANGED <<orig_val, d_val, result, tag, cv_issue, value_str, locals, resolveVars, mainVars>>

NextDigits == CountDigits

SpecDigits == InitDigits /\ [][NextDigits]_vars

\* the number of digit characters of a string
DigitCharacters(str) == Cardinality({i \in 1..Len(str) : IsDigit(str[i])})

\* C16 as stated: for every value string the digit-count rule passes to
\* count_digits, the count returned is the number of digit characters of the
\* string.
C16_CountsDigitCharacters ==
    pc = "counted" => sf = DigitCharacters(value_str)

\* the number a value string stands for once ＜ is normalised and one leading
\* "<" is removed
NumberOf(v) ==
    LET n == ReplaceChar(Strip(v), "FLT", "<")
    IN ParseFloat(IF StartsWith(n, <<"<">>) THEN Tail(n) ELSE n)

\* both strings stand for numbers less than 1e-4 apart
NumericallyEqual(a, b) ==
    NumberOf(a).ok /\ NumberOf(b).ok /\ Abs(NumberOf(a).num - NumberOf(b).num) < Tolerance

\* C3 as stated: the comparator used by cross_verify_reports accepts every pair
\* of value strings that stand for numbers less than 1e-4 apart.
C3_ReportsComparatorHasTolerance ==
    (tag \notin {"pending", "idle"} /\ NumericallyEqual(orig_val, result)) => tag = "none"

\* C3 (amended): the vals_match of cross_verify.py accepts every pair of value
\* strings that stand for numbers less than 1e-4 apart ("<0.05"/"<0.050" and
\* "0.30"/"0.3" included); the vals_match of analyze_reports.py, which
\* cross_verify_reports uses, accepts such a pair only when the normalised
\* strings are equal, and reports "0.30"/"0.3" as a digit-count difference.
C3_ToleranceOnlyInCrossVerify ==
    /\ (cv_issue \notin {"pending", "idle"} /\ NumericallyEqual(orig_val, result))
          => cv_issue = "none"
    /\ (tag \notin {"pending", "idle"} /\ NumericallyEqual(orig_val, result))
          => \/ tag = "none" /\ NormaliseValue(orig_val) = NormaliseValue(result)
             \/ tag = "digits" /\ NormaliseValue(orig_val) # NormaliseValue(result)

\* "0.30" against "0.3": accepted by cross_verify.py, a digit-count
\* difference for cross_verify_reports
C3_Witness ==
    /\ orig_val = V_030
    /\ result = V_03
    /\ cv_issue = "none"
    /\ tag = "digits"

\* the number the classifier of cross_verify_reports compares: the value with
\* trailing list punctuation removed, ＜ read as <, and "<" removed
ComparedNumber(v) == ParseFloat(RemoveChar(NormaliseValue(v), "<"))

BothParse == ComparedNumber(orig_val).ok /\ ComparedNumber(result).ok

DifferBeyondTolerance ==
    Abs(ComparedNumber(orig_val).num - ComparedNumber(result).num) > Tolerance

\* C4 as stated: a mismatch is a value difference only if both sides parse as
\* numbers and differ by more than 1e-4; in every other case (a side that does
\* not parse included) it is a formatting/digit-count difference.
C4_ParseFailureIsFormatting ==
    (tag \in {"value", "digits"}) =>
        (tag = "value" <=> (BothParse /\ DifferBeyondTolerance))

\* C4 (amended): a mismatch is a value difference if either side fails to
\* parse as a number, or both parse and differ by more than 1e-4; it is a
\* formatting/digit-count difference only when both sides parse and differ by
\* at most 1e-4.
C4_ParseFailureIsValueDifference ==
    (tag \in {"value", "digits"}) =>
        (tag = "value" <=> (~BothParse \/ DifferBeyondTolerance))

\* "无" against "未检出": neither parses, reported as a value difference
C4_Witness ==
    /\ orig_val = V_Wu
    /\ result = V_ND
    /\ tag = "value"

\* C5: absence is never a mismatch: when the original value is absent or the
\* report's result cell is blank, no mismatch is reported for the pair.
C5_AbsenceNeverMismatch ==
    (tag \notin {"pending", "idle"} /\ (orig_val = None \/ d_val = None)) => tag = "none"

(***************************************************************************)
(* Ordered dictionaries (Python dict): a sequence of [k, v] entries in     *)
(* insertion order, keys distinct                                          *)
(***************************************************************************)

HasKey(d, key) == \E i \in 1..Len(d) : d[i].k = key

\* d.get(key, default)
DictGet(d, key, default) ==
    IF HasKey(d, key) THEN d[CHOOSE i \in 1..Len(d) : d[i].k = key].v ELSE default

\* d[key] = val
DictPut(d, key, val) ==
    IF HasKey(d, key)
    THEN [i \in 1..Len(d) |-> IF d[i].k = key THEN [k |-> key, v |-> val] ELSE d[i]]
    ELSE Append(d, [k |-> key, v |-> val])

Range(s) == {s[i] : i \in 1..Len(s)}

(***************************************************************************)
(* Sample descriptions of the registry                                     *)
(***************************************************************************)

\* Python s.replace(sub, ''), non-overlapping occurrences from the left
RECURSIVE RemoveSubFrom(_, _, _)
RemoveSubFrom(s, sub, i) ==
    IF i > Len(s) THEN <<>>
    ELSE IF MatchAt(sub, s, i) THEN RemoveSubFrom(s, sub, i + Len(sub))
    ELSE <<s[i]>> \o RemoveSubFrom(s, sub, i + 1)

RemoveSub(s, sub) == RemoveSubFrom(s, sub, 1)

\* for tag in tags: s = s.replace(tag, '')
RECURSIVE RemoveTags(_, _)
RemoveTags(s, tags) ==
    IF tags = <<>> THEN s ELSE RemoveTags(RemoveSub(s, Head(tags)), Tail(tags))

ChuChangShui       == <<"chu", "chang", "shui">>                 \* 出厂水
GuanWangMoShaoShui == <<"guan", "wang", "mo", "shao", "shui">>   \* 管网末梢水
GuanWangMoShao     == <<"guan", "wang", "mo", "shao">>           \* 管网末梢
GuanWangShui       == <<"guan", "wang", "shui">>                 \* 管网水
GuanWang           == <<"guan", "wang">>                         \* 管网
YuanShui           == <<"yuan", "shui">>                         \* 原水
NongYinShui        == <<"nong", "yin3", "shui">>                 \* 农饮水
NongCun            == <<"nong", "cun">>                          \* 农村
ErCiGongShui       == <<"er", "ci", "gong", "shui">>             \* 二次供水
WeiZhi             == <<"wei", "zhi1">>                          \* 未知
ShuiChang          == <<"shui", "chang">>                        \* 水厂

classify_sample_water_type(desc) ==
    IF In(ErCiGongShui, desc) THEN ErCiGongShui
    ELSE IF In(NongYinShui, desc) \/ In(NongCun, desc) THEN NongYinShui
    ELSE IF In(GuanWangMoShao, desc) THEN GuanWangMoShaoShui
    ELSE IF In(GuanWang, desc) THEN GuanWangShui
    ELSE IF In(ChuChangShui, desc) THEN ChuChangShui
    ELSE IF In(YuanShui, desc) THEN YuanShui
    ELSE WeiZhi

\* the parenthesis group of r'[\(（][^)）]*[\)）]' also ends at the first
\* closing character, so SubParenFrom serves here too
extract_plant_from_desc(desc) ==
    Strip(SubParenFrom(
        RemoveTags(desc, <<ChuChangShui, GuanWangMoShaoShui, GuanWangShui,
                           YuanShui, NongYinShui, ErCiGongShui>>), 1))

(***************************************************************************)
(* Issues.  An issue is the text the code formats; the record keeps the    *)
(* template (kind) and the interpolated parts:                             *)
(*   subject  plant, sample id or file name                                *)
(*   item     item name                                                    *)
(*   refs     descriptions or file names listed in the text                *)
(*   nums     numbers (scaled, or counts)                                  *)
(*   vals     value strings                                                *)
(*   etc      whether the text ends its list with '...'                    *)
(***************************************************************************)

Issue(kind, subject, item, refs, nums, vals, etc) ==
    [kind |-> kind, subject |-> subject, item |-> item, refs |-> refs,
     nums |-> nums, vals |-> vals, etc |-> etc]

\* the concatenation of a sequence of sequences
RECURSIVE Flatten(_)
Flatten(ss) == IF ss = <<>> THEN <<>> ELSE Head(ss) \o Flatten(Tail(ss))

(***************************************************************************)
(* check_original_records                                                  *)
(***************************************************************************)

Entry(sid, desc) == [sample_id |-> sid, description |-> desc]

\* plant -> water type -> sample id, over the W-class entries
RECURSIVE plant_samples(_)
plant_samples(reg) ==
    IF reg = <<>> THEN <<>>
    ELSE LET rest == plant_samples(SubSeq(reg, 1, Len(reg) - 1))
             entry == reg[Len(reg)]
             wtype == classify_sample_water_type(entry.description)
             plant == extract_plant_from_desc(entry.description)
         IN IF StartsWith(entry.sample_id, <<"W">>) /\ plant # <<>> /\ wtype # WeiZhi
            THEN DictPut(rest, plant,
                         DictPut(DictGet(rest, plant, <<>>), wtype, entry.sample_id))
            ELSE rest

\* 1. samples without any test data
MissingDataIssues(reg, test_data) ==
    Flatten([i \in 1..Len(reg) |->
        IF ~HasKey(test_data, reg[i].sample_id) \/ DictGet(test_data, reg[i].sample_id, <<>>) = <<>>
        THEN <<Issue("no_data", reg[i].sample_id, <<>>, <<reg[i].description>>, <<>>, <<>>, FALSE)>>
        ELSE <<>>])

\* gwv > ccv * 1.1 and gwv > 0 and ccv > 0
OrigChlorineExceeds(gwv, ccv) == gwv * 10 > ccv * 11 /\ gwv > 0 /\ ccv > 0

ChlorineItems == <<FreeCl, ClO2>>

\* the key of tm.get('管网水') or tm.get('管网末梢水'); the values of the
\* dictionary (sample ids, reports) are never empty
DistributionKey(tm) ==
    IF HasKey(tm, GuanWangShui) THEN GuanWangShui ELSE GuanWangMoShaoShui

\* 4. chlorine: distribution network against effluent

\* the comparison of the two parsed values
OrigChlorineIssueOfValues(plant, item, ccv, gwv) ==
    IF ccv.ok /\ gwv.ok /\ OrigChlorineExceeds(gwv.num, ccv.num)
    THEN <<Issue("order_orig", plant, item, <<>>, <<gwv.num, ccv.num>>, <<>>, FALSE)>>
    ELSE <<>>

\* cc_data, gw_data: the items of the effluent and of the distribution sample
OrigChlorineIssuesOfData(plant, cc_data, gw_data) ==
    Flatten([c \in 1..Len(ChlorineItems) |->
        OrigChlorineIssueOfValues(plant, ChlorineItems[c],
            ParseFloat(RemoveChar(DictGet(cc_data, ChlorineItems[c], <<>>), "<")),
            ParseFloat(RemoveChar(DictGet(gw_data, ChlorineItems[c], <<>>), "<")))])

\* tm: the sample ids of a plant by water type
OrigChlorineIssuesOfPlant(plant, tm, test_data) ==
    IF HasKey(tm, ChuChangShui) /\ HasKey(tm, DistributionKey(tm))
    THEN OrigChlorineIssuesOfData(plant,
             DictGet(test_data, DictGet(tm, ChuChangShui, <<>>), <<>>),
             DictGet(test_data, DictGet(tm, DistributionKey(tm), <<>>), <<>>))
    ELSE <<>>

OrigChlorineIssuesOfPlants(ps, test_data) ==
    Flatten([p \in 1..Len(ps) |-> OrigChlorineIssuesOfPlant(ps[p].k, ps[p].v, test_data)])

OrigChlorineIssues(reg, test_data) ==
    OrigChlorineIssuesOfPlants(plant_samples(reg), test_data)

\* 5. permanganate index: effluent against raw water

\* ccf > ywf * 1.2
OrigKMnOExceeds(ccf, ywf) == ccf * 10 > ywf * 12

OrigKMnOIssueOfValues(plant, ccf, ywf) ==
    IF ccf.ok /\ ywf.ok /\ OrigKMnOExceeds(ccf.num, ywf.num)
    THEN <<Issue("kmno_orig", plant, <<>>, <<>>, <<ccf.num, ywf.num>>, <<>>, FALSE)>>
    ELSE <<>>

\* the first key both samples hold a value for decides
OrigKMnOIssuesOfData(plant, cc_data, yw_data) ==
    IF DictGet(cc_data, KMnO, <<>>) # <<>> /\ DictGet(yw_data, KMnO, <<>>) # <<>>
    THEN OrigKMnOIssueOfValues(plant,
             ParseFloat(RemoveChar(DictGet(cc_data, KMnO, <<>>), "<")),
             ParseFloat(RemoveChar(DictGet(yw_data, KMnO, <<>>), "<")))
    ELSE IF DictGet(cc_data, KMnO_O2, <<>>) # <<>> /\ DictGet(yw_data, KMnO_O2, <<>>) # <<>>
    THEN OrigKMnOIssueOfValues(plant,
             ParseFloat(RemoveChar(DictGet(cc_data, KMnO_O2, <<>>), "<")),
             ParseFloat(RemoveChar(DictGet(yw_data, KMnO_O2, <<>>), "<")))
    ELSE <<>>

OrigKMnOIssuesOfPlant(plant, tm, test_data) ==
    IF HasKey(tm, ChuChangShui) /\ HasKey(tm, YuanShui)
    THEN OrigKMnOIssuesOfData(plant,
             DictGet(test_data, DictGet(tm, ChuChangShui, <<>>), <<>>),
             DictGet(test_data, DictGet(tm, YuanShui, <<>>), <<>>))
    ELSE <<>>

OrigKMnOIssuesOfPlants(ps, test_data) ==
    Flatten([p \in 1..Len(ps) |-> OrigKMnOIssuesOfPlant(ps[p].k, ps[p].v, test_data)])

OrigKMnOIssues(reg, test_data) ==
    OrigKMnOIssuesOfPlants(plant_samples(reg), test_data)

DupDecimals == 3
DupMin == 4
DupShown == 5

\* val.split('.')[1], for a val that holds a '.'
AfterPoint(val) ==
    LET p == CHOOSE i \in 1..Len(val) : val[i] = "." /\ \A k \in 1..(i - 1) : val[k] # "."
        stops == {j \in (p + 1)..Len(val) : val[j] = "."}
        q == IF stops = {} THEN Len(val) + 1
             ELSE CHOOSE j \in stops : \A k \in stops : j <= k
    IN SubSeq(val, p + 1, q - 1)

\* whether the duplicate rule records the value
DupCounted(val) ==
    /\ ~StartsWith(val, <<"<">>) /\ ~StartsWith(val, <<"FLT">>)
    /\ val \notin {V_ND, V_Wu, V_0}
    /\ ParseFloat(val).ok
    /\ In(<<".">>, val) /\ Len(AfterPoint(val)) >= DupDecimals

\* the (name, val, sid) triples in the order the rule visits them
DupCandidates(test_data) ==
    Flatten([s \in 1..Len(test_data) |->
        IF StartsWith(test_data[s].k, <<"W">>)
        THEN Flatten([j \in 1..Len(test_data[s].v) |->
                 IF DupCounted(test_data[s].v[j].v)
                 THEN <<[name |-> test_data[s].v[j].k, val |-> test_data[s].v[j].v,
                         sid |-> test_data[s].k]>>
                 ELSE <<>>])
        ELSE <<>>])

\* name -> val -> list of sample ids
RECURSIVE item_val_samples(_)
item_val_samples(cands) ==
    IF cands = <<>> THEN <<>>
    ELSE LET rest == item_val_samples(SubSeq(cands, 1, Len(cands) - 1))
             c == cands[Len(cands)]
             val_map == DictGet(rest, c.name, <<>>)
         IN DictPut(rest, c.name,
                    DictPut(val_map, c.val, Append(DictGet(val_map, c.val, <<>>), c.sid)))

\* next((e['description'] for e in registry if e['sample_id'] == s), s)
DescriptionOf(reg, s) ==
    IF \E i \in 1..Len(reg) : reg[i].sample_id = s
    THEN reg[CHOOSE i \in 1..Len(reg) :
                 /\ reg[i].sample_id = s
                 /\ \A k \in 1..(i - 1) : reg[k].sample_id # s].description
    ELSE s

Min(a, b) == IF a < b THEN a ELSE b

\* a duplicate rule that lists every sample
DuplicateIssuesListingAll(reg, ivs) ==
    LET OfVal(name, e) ==
            IF Len(e.v) >= DupMin
            THEN <<Issue("duplicate", <<>>, name,
                         [i \in 1..Len(e.v) |-> DescriptionOf(reg, e.v[i])],
                         <<Len(e.v)>>, <<e.k>>, FALSE)>>
            ELSE <<>>
    IN Flatten([n \in 1..Len(ivs) |->
           Flatten([m \in 1..Len(ivs[n].v) |-> OfVal(ivs[n].k, ivs[n].v[m])])])

\* the issues of the values that DupMin or more samples share
DuplicateIssuesOf(reg, ivs) ==
    LET OfVal(name, e) ==
            IF Len(e.v) >= DupMin
            THEN <<Issue("duplicate", <<>>, name,
                         [i \in 1..Min(Len(e.v), DupShown) |-> DescriptionOf(reg, e.v[i])],
                         <<Len(e.v)>>, <<e.k>>, Len(e.v) > DupShown)>>
            ELSE <<>>
    IN Flatten([n \in 1..Len(ivs) |->
           Flatten([m \in 1..Len(ivs[n].v) |-> OfVal(ivs[n].k, ivs[n].v[m])])])

\* 7. identical values in several samples
DuplicateIssues(reg, test_data) ==
    DuplicateIssuesOf(reg, item_val_samples(DupCandidates(test_data)))

\* the registry entries of the sample: next((e for e in registry if ...), None)
\* is the first of them
EntriesOf(reg, sid) == SelectSeq(reg, LAMBDA e : e.sample_id = sid)

\* float(str(val).replace('<', '').replace('＜', '')) < 0
IsNegative(val) ==
    /\ ParseFloat(RemoveChar(RemoveChar(val, "<"), "FLT")).ok
    /\ ParseFloat(RemoveChar(RemoveChar(val, "<"), "FLT")).num < 0

\* 3. negative values, over every sample of the test data; the label is the
\* description with the sample id, or the sample id alone for a sample the
\* registry does not list
NegativeIssuesOfSample(reg, sid, items) ==
    Flatten([i \in 1..Len(items) |->
        IF IsNegative(items[i].v)
        THEN <<Issue("negative", sid, items[i].k,
                     IF EntriesOf(reg, sid) # <<>>
                     THEN <<EntriesOf(reg, sid)[1].description>> ELSE <<>>,
                     <<>>, <<items[i].v>>, FALSE)>>
        ELSE <<>>])

NegativeIssues(reg, test_data) ==
    Flatten([s \in 1..Len(test_data) |->
        NegativeIssuesOfSample(reg, test_data[s].k, test_data[s].v)])

\* 6. negative values of the quality-control samples (M and K series)
QCNegativeIssuesOfSample(sid, items) ==
    Flatten([i \in 1..Len(items) |->
        IF IsNegative(items[i].v)
        THEN <<Issue("qc_negative", sid, items[i].k, <<>>, <<>>, <<items[i].v>>, FALSE)>>
        ELSE <<>>])

QCNegativeIssues(test_data) ==
    Flatten([s \in 1..Len(test_data) |->
        IF StartsWith(test_data[s].k, <<"M">>) \/ StartsWith(test_data[s].k, <<"K">>)
        THEN QCNegativeIssuesOfSample(test_data[s].k, test_data[s].v)
        ELSE <<>>])

\* 12. digit counts within a water type

DigitsShown == 3

\* the first group among those with the most entries: max(sf_map.items(),
\* key=lambda x: len(x[1]))
MostOf(sf_map) ==
    sf_map[CHOOSE g \in 1..Len(sf_map) :
               /\ \A h \in 1..Len(sf_map) : Len(sf_map[h].v) <= Len(sf_map[g].v)
               /\ \A h \in 1..(g - 1) : Len(sf_map[h].v) < Len(sf_map[g].v)]

\* the issue of one group of entries against the group `most`
DigitIssueOfGroup(kind, subject, param, group, most) ==
    IF group.k # most.k /\ Len(group.v) < Len(most.v)
    THEN <<Issue(kind, subject, param,
                 Flatten([i \in 1..Min(Len(group.v), DigitsShown) |-> group.v[i].refs]),
                 <<Len(group.v), group.k, Len(most.v), most.k>>,
                 [i \in 1..Min(Len(group.v), DigitsShown) |-> group.v[i].val],
                 Len(group.v) > DigitsShown)>>
    ELSE <<>>

\* sf_map: digit count -> entries, for one item of one water type
DigitIssuesOfItem(kind, subject, param, sf_map) ==
    IF Len(sf_map) <= 1 THEN <<>>
    ELSE Flatten([g \in 1..Len(sf_map) |->
             DigitIssueOfGroup(kind, subject, param, sf_map[g], MostOf(sf_map))])

\* the (wtype, param, sf, entry) quadruples in the order the rule visits them:
\* the W-class registry entries with test data, and their values that are
\* passed to count_digits
DigitCandidatesOfEntry(entry, items) ==
    Flatten([j \in 1..Len(items) |->
        IF PassedToCountDigits(items[j].v)
        THEN <<[wtype |-> classify_sample_water_type(entry.description),
                param |-> items[j].k,
                sf |-> count_digits(ReplaceChar(Strip(items[j].v), "FLT", "<")),
                entry |-> [refs |-> <<entry.description, entry.sample_id>>,
                           val |-> ReplaceChar(Strip(items[j].v), "FLT", "<")]]>>
        ELSE <<>>])

DigitCandidates(reg, test_data) ==
    Flatten([i \in 1..Len(reg) |->
        IF StartsWith(reg[i].sample_id, <<"W">>) /\ HasKey(test_data, reg[i].sample_id)
        THEN DigitCandidatesOfEntry(reg[i], DictGet(test_data, reg[i].sample_id, <<>>))
        ELSE <<>>])

\* wtype -> param -> sf -> list of entries
RECURSIVE wtype_items(_)
wtype_items(cands) ==
    IF cands = <<>> THEN <<>>
    ELSE LET rest == wtype_items(SubSeq(cands, 1, Len(cands) - 1))
             c == cands[Len(cands)]
             params == DictGet(rest, c.wtype, <<>>)
             sf_map == DictGet(params, c.param, <<>>)
         IN DictPut(rest, c.wtype,
                    DictPut(params, c.param,
                            DictPut(sf_map, c.sf, Append(DictGet(sf_map, c.sf, <<>>), c.entry))))

DigitCountIssuesOf(kind, wi) ==
    Flatten([w \in 1..Len(wi) |->
        Flatten([p \in 1..Len(wi[w].v) |->
            DigitIssuesOfItem(kind, wi[w].k, wi[w].v[p].k, wi[w].v[p].v)])])

DigitCountIssues(reg, test_data) ==
    DigitCountIssuesOf("digits_orig", wtype_items(DigitCandidates(reg, test_data)))

\* The rules modelled are 1 (missing data), 3 (negative values), 4 (chlorine),
\* 5 (permanganate index), 6 (quality-control samples), 7 (duplicate values)
\* and 12 (digit counts), in the order of the code; the issues of the other
\* rules of check_original_records are not represented.
check_original_records(reg, test_data) ==
    MissingDataIssues(reg, test_data)
    \o NegativeIssues(reg, test_data)
    \o OrigChlorineIssues(reg, test_data)
    \o OrigKMnOIssues(reg, test_data)
    \o QCNegativeIssues(test_data)
    \o DuplicateIssues(reg, test_data)
    \o DigitCountIssues(reg, test_data)

(***************************************************************************)
(* File names                                                              *)
(***************************************************************************)

\* Python s.endswith(sub)
EndsWith(s, sub) == Len(sub) <= Len(s) /\ MatchAt(sub, s, Len(s) - Len(sub) + 1)

ExtXlsx == <<".", "x", "l", "s", "x">>
ExtXls  == <<".", "x", "l", "s">>

\* the longest run of digits the string starts with
RECURSIVE LeadingDigits(_)
LeadingDigits(s) ==
    IF s # <<>> /\ IsDigit(Head(s)) THEN <<Head(s)>> \o LeadingDigits(Tail(s)) ELSE <<>>

\* re.match(r'^(\d+)', fname): the prefix, or None
extract_number_prefix(fname) ==
    IF LeadingDigits(fname) = <<>> THEN None ELSE LeadingDigits(fname)

\* os.path.splitext(fname)[1], for the extensions a report file can have
Extension(fname) ==
    IF EndsWith(fname, ExtXlsx) THEN ExtXlsx
    ELSE IF EndsWith(fname, ExtXls) THEN ExtXls
    ELSE <<>>

ShengHuoYinYongShui == <<"sheng", "huo", "yin3", "yong", "shui">>   \* 生活饮用水
ZhuanGongShui       == <<"zhuan", "gong", "shui">>                  \* 转供水
RiJianJiuXiang      == <<"ri", "jian", "jiu", "xiang">>             \* 日检九项
SongJian            == <<"song", "jian">>                           \* 送检
RongChang           == <<"rong2", "chang1">>                        \* 荣昌
DiBiaoSanLei        == <<"di4", "biao", "san", "lei">>              \* 地表三类
YingJiShuiYang      == <<"ying4", "ji2", "shui", "yang4">>          \* 应急水样
ShuiKu              == <<"shui", "ku">>                             \* 水库
BengZhan            == <<"beng", "zhan">>                           \* 泵站

\* a classifier that asks for effluent before raw water
classify_water_type_effluent_first(fname) ==
    IF In(ErCiGongShui, fname) THEN ErCiGongShui
    ELSE IF In(NongYinShui, fname) \/ In(ShengHuoYinYongShui, fname) THEN NongYinShui
    ELSE IF In(ZhuanGongShui, fname) THEN ZhuanGongShui
    ELSE IF In(RiJianJiuXiang, fname) THEN RiJianJiuXiang
    ELSE IF In(SongJian, fname) THEN SongJian
    ELSE IF In(KMnO, fname) THEN KMnO
    ELSE IF In(ChuChangShui, fname) THEN ChuChangShui
    ELSE IF In(YuanShui, fname) THEN YuanShui
    ELSE IF In(GuanWang, fname) THEN GuanWangShui
    ELSE WeiZhi

classify_water_type(fname) ==
    IF In(ErCiGongShui, fname) THEN ErCiGongShui
    ELSE IF In(NongYinShui, fname) \/ In(ShengHuoYinYongShui, fname) THEN NongYinShui
    ELSE IF In(ZhuanGongShui, fname) THEN ZhuanGongShui
    ELSE IF In(RiJianJiuXiang, fname) THEN RiJianJiuXiang
    ELSE IF In(SongJian, fname) THEN SongJian
    ELSE IF In(KMnO, fname) THEN KMnO
    ELSE IF In(YuanShui, fname) THEN YuanShui
    ELSE IF In(ChuChangShui, fname) THEN ChuChangShui
    ELSE IF In(GuanWang, fname) THEN GuanWangShui
    ELSE WeiZhi

\* re.sub(r'\s*\d{2}\.\d{2}\s*$', '', name)
StripDateSuffix(name) ==
    LET t == RStrip(name)
        n == Len(t)
    IN IF /\ n >= 5
          /\ IsDigit(t[n - 4]) /\ IsDigit(t[n - 3]) /\ t[n - 2] = "."
          /\ IsDigit(t[n - 1]) /\ IsDigit(t[n])
       THEN RStrip(SubSeq(t, 1, n - 5))
       ELSE name

\* Python s.strip(' -')
RECURSIVE StripSpaceDash(_)
StripSpaceDash(s) ==
    IF s # <<>> /\ Head(s) \in {" ", "-"} THEN StripSpaceDash(Tail(s))
    ELSE IF s # <<>> /\ s[Len(s)] \in {" ", "-"} THEN StripSpaceDash(SubSeq(s, 1, Len(s) - 1))
    ELSE s

\* the end of the shortest prefix matching r'.+?' followed by word, 0 if none
FirstAfterOne(name, word) ==
    IF \E i \in 2..Len(name) : MatchAt(word, name, i)
    THEN (CHOOSE i \in 2..Len(name) :
              MatchAt(word, name, i) /\ \A k \in 2..(i - 1) : ~MatchAt(word, name, k))
         + Len(word) - 1
    ELSE 0

\* the run of characters before the first parenthesis: r'^([^（(]+)'
RECURSIVE BeforeParen(_)
BeforeParen(s) ==
    IF s # <<>> /\ Head(s) \notin {"(", "FL"} THEN <<Head(s)>> \o BeforeParen(Tail(s)) ELSE <<>>

\* re.sub(r'管网水$', '水厂', plant)
ReplaceTrailingGuanWangShui(plant) ==
    IF EndsWith(plant, GuanWangShui)
    THEN SubSeq(plant, 1, Len(plant) - Len(GuanWangShui)) \o ShuiChang
    ELSE plant

extract_plant_name(fname) ==
    LET noPrefix == SubSeq(fname, Len(LeadingDigits(fname)) + 1, Len(fname))
        noExt == SubSeq(noPrefix, 1, Len(noPrefix) - Len(Extension(noPrefix)))
        noDate == StripDateSuffix(noExt)
        name == StripSpaceDash(RemoveTags(noDate,
                    << <<"-">> \o SongJian, SongJian, <<"-">> \o RongChang, RongChang,
                       RiJianJiuXiang, KMnO, <<"-">> \o DiBiaoSanLei, DiBiaoSanLei,
                       YingJiShuiYang, <<"-">> \o YingJiShuiYang >>))
        e == IF FirstAfterOne(name, ShuiChang) > 0 THEN FirstAfterOne(name, ShuiChang)
             ELSE IF FirstAfterOne(name, ShuiKu) > 0 THEN FirstAfterOne(name, ShuiKu)
             ELSE FirstAfterOne(name, BengZhan)
    IN IF e > 0 THEN Strip(ReplaceTrailingGuanWangShui(SubSeq(name, 1, e)))
       ELSE IF BeforeParen(name) # <<>> THEN Strip(BeforeParen(name))
       ELSE Strip(name)

(***************************************************************************)
(* Reading a report file.  A file of the directory is                      *)
(*   fname        its name                                                 *)
(*   opens        whether the workbook can be loaded                       *)
(*   sheet_count  number of sheets                                         *)
(*   b1           cell B1 of the first sheet (the report number), or None  *)
(*   c8           cell C8 of the second sheet (the sample id), or None     *)
(*   rows         rows of the sheets from the third on: columns A, B, D    *)
(***************************************************************************)

Row(a, b, d) == [a_val |-> a, b_val |-> b, d_val |-> d]

Inf == <<"i", "n", "f">>

\* int(f), for the float the string parsed to
IntOfFloat(f) ==
    IF f.ok THEN [err |-> "none", num |-> f.num \div Pow10(Scale)]
    ELSE [err |-> "ValueError", num |-> 0]

\* int(float(str(a_val))): the number, or the error raised
RowSeq(a_val) ==
    IF Strip(a_val) = Inf THEN [err |-> "OverflowError", num |-> 0]
    ELSE IntOfFloat(ParseFloat(a_val))

\* 1 <= seq <= 100
SeqInRange(seq) == seq.err = "none" /\ 1 <= seq.num /\ seq.num <= 100

RowCounts(row) ==
    /\ row.a_val # None /\ row.b_val # None
    /\ SeqInRange(RowSeq(row.a_val))
    /\ row.b_val # <<>>

RowRaises(row) ==
    row.a_val # None /\ row.b_val # None /\ RowSeq(row.a_val).err = "OverflowError"

\* the first position from i on that holds no blank
RECURSIVE SkipBlanks(_, _)
SkipBlanks(s, i) == IF i <= Len(s) /\ s[i] = " " THEN SkipBlanks(s, i + 1) ELSE i

\* the first position from i on that holds no digit
RECURSIVE SkipDigits(_, _)
SkipDigits(s, i) == IF i <= Len(s) /\ IsDigit(s[i]) THEN SkipDigits(s, i + 1) ELSE i

CharAt(s, i, ch) == i <= Len(s) /\ s[i] = ch

\* (\d+)\s*\)\s*号 with the digits from d1 to d2 - 1 and the next non-blank at c
ClosesAfterDigits(s, d1, d2, c) ==
    d2 > d1 /\ CharAt(s, c, ")") /\ CharAt(s, SkipBlanks(s, c + 1), "hao4")

\* \(\s*(\d+)\s*\)\s*号 at o
OpensAt(s, o) ==
    /\ CharAt(s, o, "(")
    /\ ClosesAfterDigits(s, SkipBlanks(s, o + 1), SkipDigits(s, SkipBlanks(s, o + 1)),
                         SkipBlanks(s, SkipDigits(s, SkipBlanks(s, o + 1))))

\* r'第\s*\(\s*(\d+)\s*\)\s*号' matches at i
ReportNumberAt(s, i) == CharAt(s, i, "di5") /\ OpensAt(s, SkipBlanks(s, i + 1))

\* group 1 of the match at i
ReportNumberGroup(s, i) ==
    SubSeq(s, SkipBlanks(s, SkipBlanks(s, i + 1) + 1),
           SkipDigits(s, SkipBlanks(s, SkipBlanks(s, i + 1) + 1)) - 1)

\* the report number of cell B1, '' when the cell holds none
search_report_number(b1) ==
    IF b1 # None /\ \E i \in 1..Len(b1) : ReportNumberAt(b1, i)
    THEN ReportNumberGroup(b1, CHOOSE i \in 1..Len(b1) :
                                   /\ ReportNumberAt(b1, i)
                                   /\ \A k \in 1..(i - 1) : ~ReportNumberAt(b1, k))
    ELSE <<>>

\* the info dict; a key the code leaves unset holds the default every later
\* read of it supplies (sheet_count 0, report_number '', sample_id '',
\* test_items [])
read_xlsx_report_info(file) ==
    LET raised == \E r \in 1..Len(file.rows) : RowRaises(file.rows[r])
        items == Flatten([r \in 1..Len(file.rows) |->
                     IF RowCounts(file.rows[r])
                     THEN <<Item(Strip(file.rows[r].b_val), ReadResult(file.rows[r].d_val))>>
                     ELSE <<>>])
    IN IF ~file.opens
       THEN [read_error |-> TRUE, sheet_count |-> 0, report_number |-> <<>>,
             sample_id |-> <<>>, test_items |-> <<>>]
       ELSE [read_error |-> raised,
             sheet_count |-> file.sheet_count,
             report_number |-> search_report_number(file.b1),
             sample_id |-> IF file.sheet_count >= 2 /\ file.c8 \notin {None, <<>>}
                           THEN Strip(file.c8) ELSE <<>>,
             test_items |-> IF raised THEN <<>> ELSE items]

\* the info dict as main completes it
CompleteInfo(fname, info) ==
    [filename |-> fname,
     extension |-> Extension(fname),
     prefix |-> extract_number_prefix(fname),
     water_type |-> classify_water_type(fname),
     plant_name |-> extract_plant_name(fname),
     read_error |-> info.read_error,
     sheet_count |-> info.sheet_count,
     report_number |-> info.report_number,
     sample_id |-> info.sample_id,
     test_items |-> info.test_items]

InfoOf(file) == CompleteInfo(file.fname, read_xlsx_report_info(file))

(***************************************************************************)
(* cross_verify_reports                                                    *)
(***************************************************************************)

\* sample id -> report, the last report of a sample id staying
RECURSIVE sid_to_report(_)
sid_to_report(infos) ==
    IF infos = <<>> THEN <<>>
    ELSE LET rest == sid_to_report(SubSeq(infos, 1, Len(infos) - 1))
             info == infos[Len(infos)]
         IN IF Strip(info.sample_id) # <<>>
            THEN DictPut(rest, Strip(info.sample_id), info)
            ELSE rest

\* A. registry samples without a report
NoReportIssues(reg, infos) ==
    Flatten([i \in 1..Len(reg) |->
        IF StartsWith(reg[i].sample_id, <<"W">>) /\ ~HasKey(sid_to_report(infos), reg[i].sample_id)
        THEN <<Issue("no_report", reg[i].sample_id, <<>>, <<reg[i].description>>, <<>>, <<>>, FALSE)>>
        ELSE <<>>])

\* re.match(r'[WKM]\d{6}C\d+', sid)
LooksLikeSampleId(sid) ==
    /\ Len(sid) >= 9
    /\ sid[1] \in {"W", "K", "M"}
    /\ \A i \in 2..7 : IsDigit(sid[i])
    /\ sid[8] = "C"
    /\ IsDigit(sid[9])

\* B. reports of samples the registry does not hold
UnknownSampleIssues(reg, infos) ==
    Flatten([i \in 1..Len(infos) |->
        LET sid == Strip(infos[i].sample_id)
        IN IF /\ sid # <<>>
              /\ \A e \in 1..Len(reg) : reg[e].sample_id # sid
              /\ LooksLikeSampleId(sid)
           THEN <<Issue("unknown_sample", infos[i].filename, <<>>, <<>>, <<>>, <<sid>>, FALSE)>>
           ELSE <<>>])

\* s.split(ch)[0]
RECURSIVE BeforeChar(_, _)
BeforeChar(s, ch) ==
    IF s # <<>> /\ Head(s) # ch THEN <<Head(s)>> \o BeforeChar(Tail(s), ch) ELSE <<>>

\* the name before any parenthesis and before the first blank
BaseName(o_name) ==
    BeforeChar(Strip(BeforeChar(BeforeChar(o_name, "("), "FL")), " ")

SkippedBaseNames ==
    { <<"gai">>, <<"mei">>, <<"dian", "dao", "lv">>, <<"shui", "wen">> }
                                                  \* 钙, 镁, 电导率, 水温
SkippedForRawWater ==
    { <<"rou", "yan3", "ke", "jian4", "wu4">>, <<"chou", "he2", "wei4">> }
                                                  \* 肉眼可见物, 臭和味

\* D. the values of one registry sample against its report

\* a comparison that drops an item the report does not hold
ValueIssuesOfItemFound(is_raw, o_name, o_val, info, m) ==
    IF BaseName(o_name) \in SkippedBaseNames THEN <<>>
    ELSE IF is_raw /\ o_name \in SkippedForRawWater THEN <<>>
    ELSE IF m = 0 THEN <<>>
    ELSE IF ~vals_match(o_val, info.test_items[m].result)
         THEN <<Issue(IF is_value_diff(o_val, info.test_items[m].result)
                      THEN "value_diff" ELSE "digits_diff",
                      info.filename, o_name, <<>>, <<>>,
                      <<o_val, info.test_items[m].result>>, FALSE)>>
    ELSE <<>>

\* m: the row of the item in the report, 0 when it has none
ValueIssuesOfItem(is_raw, o_name, o_val, info, m) ==
    IF BaseName(o_name) \in SkippedBaseNames THEN <<>>
    ELSE IF is_raw /\ o_name \in SkippedForRawWater THEN <<>>
    ELSE IF m = 0
         THEN <<Issue("missing_item", info.filename, o_name, <<>>, <<>>, <<o_val>>, FALSE)>>
    ELSE IF ~vals_match(o_val, info.test_items[m].result)
         THEN <<Issue(IF is_value_diff(o_val, info.test_items[m].result)
                      THEN "value_diff" ELSE "digits_diff",
                      info.filename, o_name, <<>>, <<>>,
                      <<o_val, info.test_items[m].result>>, FALSE)>>
    ELSE <<>>

ValueIssuesOf(entry, orig_items, info) ==
    Flatten([j \in 1..Len(orig_items) |->
        ValueIssuesOfItem(In(YuanShui, entry.description), orig_items[j].k, orig_items[j].v,
                          info, find_matching_report_item(info.test_items, orig_items[j].k))])

ValueIssues(reg, test_data, infos) ==
    Flatten([i \in 1..Len(reg) |->
        IF HasKey(sid_to_report(infos), reg[i].sample_id) /\ HasKey(test_data, reg[i].sample_id)
        THEN ValueIssuesOf(reg[i], DictGet(test_data, reg[i].sample_id, <<>>),
                           DictGet(sid_to_report(infos), reg[i].sample_id, <<>>))
        ELSE <<>>])

\* plant -> water type -> report, over the registry entries that have a report
RECURSIVE plant_reports(_, _)
plant_reports(reg, infos) ==
    IF reg = <<>> THEN <<>>
    ELSE LET rest == plant_reports(SubSeq(reg, 1, Len(reg) - 1), infos)
             entry == reg[Len(reg)]
             wtype == classify_sample_water_type(entry.description)
             plant == extract_plant_from_desc(entry.description)
         IN IF /\ HasKey(sid_to_report(infos), entry.sample_id)
               /\ plant # <<>> /\ wtype # WeiZhi
            THEN DictPut(rest, plant,
                         DictPut(DictGet(rest, plant, <<>>), wtype,
                                 DictGet(sid_to_report(infos), entry.sample_id, <<>>)))
            ELSE rest

\* a comparison that accepts any effluent value
CrossChlorineExceedsAnyEffluent(gwv, ccv) == gwv * 10 > ccv * 11

\* gwv > ccv * 1.1 and ccv > 0
CrossChlorineExceeds(gwv, ccv) == gwv * 10 > ccv * 11 /\ ccv > 0

\* float(result.replace('<', '').replace('＜', ''))
ResultNumber(res) == ParseFloat(RemoveChar(RemoveChar(res, "<"), "FLT"))

\* E. chlorine: the distribution-network report against the effluent report

\* the comparison of the two parsed results
ChlorineIssueOfValues(plant, item, cc, gw, ccv, gwv) ==
    IF ccv.ok /\ gwv.ok /\ CrossChlorineExceeds(gwv.num, ccv.num)
    THEN <<Issue("order_cross", plant, item, <<gw.filename, cc.filename>>,
                 <<gwv.num, ccv.num>>, <<>>, FALSE)>>
    ELSE <<>>

\* cc_i, gw_i: the rows of the item in the two reports, 0 when it has none
ChlorineIssueOfRows(plant, item, cc, gw, cc_i, gw_i) ==
    IF cc_i # 0 /\ gw_i # 0
    THEN ChlorineIssueOfValues(plant, item, cc, gw,
                               ResultNumber(cc.test_items[cc_i].result),
                               ResultNumber(gw.test_items[gw_i].result))
    ELSE <<>>

\* cc, gw: the effluent report and the distribution-network report of a plant
ChlorineIssuesOfReports(plant, cc, gw) ==
    Flatten([c \in 1..Len(ChlorineItems) |->
        ChlorineIssueOfRows(plant, ChlorineItems[c], cc, gw,
                            find_matching_report_item(cc.test_items, ChlorineItems[c]),
                            find_matching_report_item(gw.test_items, ChlorineItems[c]))])

\* types: the reports of a plant by water type
ChlorineIssuesOfPlant(plant, types) ==
    IF HasKey(types, ChuChangShui) /\ HasKey(types, DistributionKey(types))
    THEN ChlorineIssuesOfReports(plant, DictGet(types, ChuChangShui, <<>>),
                                 DictGet(types, DistributionKey(types), <<>>))
    ELSE <<>>

ChlorineIssuesOfPlants(pr) ==
    Flatten([p \in 1..Len(pr) |-> ChlorineIssuesOfPlant(pr[p].k, pr[p].v)])

CrossChlorineIssues(reg, infos) ==
    ChlorineIssuesOfPlants(plant_reports(reg, infos))

\* E. permanganate index: the effluent report against the raw-water report

\* ccv > ywv * 1.5
CrossKMnOExceeds(ccv, ywv) == ccv * 10 > ywv * 15

KMnOIssueOfValues(plant, cc, yw, ccv, ywv) ==
    IF ccv.ok /\ ywv.ok /\ CrossKMnOExceeds(ccv.num, ywv.num)
    THEN <<Issue("kmno_cross", plant, <<>>, <<cc.filename, yw.filename>>,
                 <<ccv.num, ywv.num>>, <<>>, FALSE)>>
    ELSE <<>>

\* the rows of 高锰酸盐指数(以O2计) and of 高锰酸盐指数 in the two reports, 0
\* when a report has none; the first name both reports hold decides
KMnOIssueOfRows(plant, cc, yw, cc_1, yw_1, cc_2, yw_2) ==
    IF cc_1 # 0 /\ yw_1 # 0
    THEN KMnOIssueOfValues(plant, cc, yw, ResultNumber(cc.test_items[cc_1].result),
                           ResultNumber(yw.test_items[yw_1].result))
    ELSE IF cc_2 # 0 /\ yw_2 # 0
    THEN KMnOIssueOfValues(plant, cc, yw, ResultNumber(cc.test_items[cc_2].result),
                           ResultNumber(yw.test_items[yw_2].result))
    ELSE <<>>

\* cc, yw: the effluent report and the raw-water report of a plant
KMnOIssuesOfReports(plant, cc, yw) ==
    KMnOIssueOfRows(plant, cc, yw,
                    find_matching_report_item(cc.test_items, KMnO_O2),
                    find_matching_report_item(yw.test_items, KMnO_O2),
                    find_matching_report_item(cc.test_items, KMnO),
                    find_matching_report_item(yw.test_items, KMnO))

KMnOIssuesOfPlant(plant, types) ==
    IF HasKey(types, ChuChangShui) /\ HasKey(types, YuanShui)
    THEN KMnOIssuesOfReports(plant, DictGet(types, ChuChangShui, <<>>),
                             DictGet(types, YuanShui, <<>>))
    ELSE <<>>

\* for each plant, the chlorine issues and then the permanganate-index issues
LogicIssuesOfPlants(pr) ==
    Flatten([p \in 1..Len(pr) |->
        ChlorineIssuesOfPlant(pr[p].k, pr[p].v) \o KMnOIssuesOfPlant(pr[p].k, pr[p].v)])

CrossLogicIssues(reg, infos) ==
    LogicIssuesOfPlants(plant_reports(reg, infos))

\* Sections A, B, D and the chlorine and permanganate parts of E are modelled;
\* the issues of sections C and F to I and of the other parts of E are not
\* represented.
cross_verify_reports(reg, test_data, infos) ==
    [verify |-> NoReportIssues(reg, infos)
                \o UnknownSampleIssues(reg, infos)
                \o ValueIssues(reg, test_data, infos),
     logic |-> CrossLogicIssues(reg, infos)]

(***************************************************************************)
(* main: scanning the directory                                            *)
(***************************************************************************)

\* the characters of the file names, in code-point order
CharOrder ==
    <<" ", "(", ")", "-", ".", "0", "1", "2", "3", "4", "5", "6", "7", "8", "9",
      "A", "B", "C", "D", "E", "F", "G", "H", "l", "s", "x",
      "chu", "chang", "yuan", "gao4", "ku", "bao", "mo", "shao", "shui", "beng",
      "zhan", "guan", "wang">>
      \* 出 51FA 厂 5382 原 539F 告 544A 库 5E93 报 62A5 末 672B 梢 68A2 水 6C34
      \* 泵 6CF5 站 7AD9 管 7BA1 网 7F51

CodePoint(c) == CHOOSE i \in 1..Len(CharOrder) : CharOrder[i] = c

\* Python a < b on strings
RECURSIVE StrLess(_, _)
StrLess(a, b) ==
    IF b = <<>> THEN FALSE
    ELSE IF a = <<>> THEN TRUE
    ELSE IF Head(a) = Head(b) THEN StrLess(Tail(a), Tail(b))
    ELSE CodePoint(Head(a)) < CodePoint(Head(b))

\* sorted(S) for a set of strings
RECURSIVE SortedStrings(_)
SortedStrings(S) ==
    IF S = {} THEN <<>>
    ELSE LET least == CHOOSE a \in S : \A b \in S \ {a} : StrLess(a, b)
         IN <<least>> \o SortedStrings(S \ {least})

\* sorted(S) for a set of integers
RECURSIVE SortedInts(_)
SortedInts(S) ==
    IF S = {} THEN <<>>
    ELSE LET least == CHOOSE a \in S : \A b \in S : a <= b
         IN <<least>> \o SortedInts(S \ {least})

\* the file of the directory with the given name
FileNamed(fname) == CHOOSE f \in directory.reports : f.fname = fname

(***************************************************************************)
(* main: checks on the reports                                             *)
(***************************************************************************)

\* sorted(set(int(p) for _, p in prefixes if p)), as a set
PrefixNumbers(fs) ==
    {DigitsValue(extract_number_prefix(fs[i])) :
        i \in {k \in 1..Len(fs) : extract_number_prefix(fs[k]) # None}}

\* the loop over missing[1:]: the groups closed so far and the run in progress
RECURSIVE GroupConsecutive(_, _, _, _)
GroupConsecutive(rest, groups, start, end) ==
    IF rest = <<>> THEN Append(groups, <<start, end>>)
    ELSE IF Head(rest) = end + 1
         THEN GroupConsecutive(Tail(rest), groups, start, Head(rest))
         ELSE GroupConsecutive(Tail(rest), Append(groups, <<start, end>>), Head(rest), Head(rest))

\* a grouping that puts every missing number in a run of its own
GapRunsOfOne(missing) == [i \in 1..Len(missing) |-> <<missing[i], missing[i]>>]

\* the runs of consecutive missing numbers; missing is sorted
GapRuns(missing) ==
    IF missing = <<>> THEN <<>>
    ELSE GroupConsecutive(Tail(missing), <<>>, missing[1], missing[1])

GapIssuesOf(groups) ==
    [i \in 1..Len(groups) |->
        Issue("gap", <<>>, <<>>, <<>>, <<groups[i][1], groups[i][2]>>, <<>>, FALSE)]

\* 3. gaps in the sequence of file numbers; nums is not empty
GapIssues(nums) ==
    GapIssuesOf(GapRuns(SortedInts(
        ((CHOOSE a \in nums : \A b \in nums : a <= b)
            ..(CHOOSE a \in nums : \A b \in nums : a >= b)) \ nums)))

\* the files whose prefix is the number, in the order of the list
FilesNumbered(fs, num) ==
    SelectSeq(fs, LAMBDA f : /\ extract_number_prefix(f) # None
                             /\ DigitsValue(extract_number_prefix(f)) = num)

\* 4. file numbers that several files carry
DupPrefixIssuesOf(fs, nums) ==
    Flatten([i \in 1..Len(nums) |->
        IF Len(FilesNumbered(fs, nums[i])) > 1
        THEN <<Issue("dup_prefix", <<>>, <<>>, FilesNumbered(fs, nums[i]),
                     <<nums[i], Len(FilesNumbered(fs, nums[i]))>>, <<>>, FALSE)>>
        ELSE <<>>])

DupPrefixIssues(fs) == DupPrefixIssuesOf(fs, SortedInts(PrefixNumbers(fs)))

\* the file name's number against the report number of the content
NumberMismatchIssues(infos) ==
    Flatten([i \in 1..Len(infos) |->
        IF /\ infos[i].report_number # <<>>
           /\ infos[i].prefix # None
           /\ DigitsValue(infos[i].report_number) # DigitsValue(infos[i].prefix)
        THEN <<Issue("number_mismatch", infos[i].filename, <<>>, <<>>, <<>>,
                     <<infos[i].prefix, infos[i].report_number>>, FALSE)>>
        ELSE <<>>])

\* report_nums[rn]: the files that hold the report number, in the order of all_info
FilesReporting(infos, rn) ==
    [i \in 1..Len(SelectSeq(infos, LAMBDA x : x.report_number = rn)) |->
        SelectSeq(infos, LAMBDA x : x.report_number = rn)[i].filename]

\* report numbers that several files hold, in the order of the numbers
DupReportNumberIssuesOf(infos, rns) ==
    Flatten([i \in 1..Len(rns) |->
        IF Len(FilesReporting(infos, rns[i])) > 1
        THEN <<Issue("dup_report_number", <<>>, <<>>, FilesReporting(infos, rns[i]),
                     <<>>, <<rns[i]>>, FALSE)>>
        ELSE <<>>])

DupReportNumberIssues(infos) ==
    DupReportNumberIssuesOf(infos,
        SortedStrings({infos[i].report_number :
                          i \in {k \in 1..Len(infos) : infos[k].report_number # <<>>}}))

\* files without a report number
NoReportNumberIssues(infos) ==
    Flatten([i \in 1..Len(infos) |->
        IF infos[i].report_number = <<>> /\ ~infos[i].read_error
        THEN <<Issue("no_report_number", infos[i].filename, <<>>, <<>>, <<>>, <<>>, FALSE)>>
        ELSE <<>>])

\* the report-number checks
NumberingIssues(infos) ==
    NumberMismatchIssues(infos) \o DupReportNumberIssues(infos) \o NoReportNumberIssues(infos)

\* water type -> reports of the type
RECURSIVE type_groups(_)
type_groups(infos) ==
    IF infos = <<>> THEN <<>>
    ELSE LET rest == type_groups(SubSeq(infos, 1, Len(infos) - 1))
             info == infos[Len(infos)]
         IN DictPut(rest, info.water_type,
                    Append(DictGet(rest, info.water_type, <<>>), info))

\* Counter(values).most_common(1)[0][0]: the most frequent value, the one
\* seen first among equals
MostCommon(values) ==
    LET Count(v) == Cardinality({i \in 1..Len(values) : values[i] = v})
        First(v) == CHOOSE i \in 1..Len(values) :
                        values[i] = v /\ \A k \in 1..(i - 1) : values[k] # v
    IN CHOOSE v \in Range(values) :
           \A w \in Range(values) \ {v} :
               Count(v) > Count(w) \/ (Count(v) = Count(w) /\ First(v) < First(w))

\* sheet counts within a water type
SheetCountIssues(infos) ==
    LET tg == type_groups(infos)
        OfGroup(g) ==
            LET group == tg[g].v
                counts == [i \in 1..Len(group) |-> group[i].sheet_count]
            IN IF Len(group) >= 2 /\ Cardinality(Range(counts)) > 1
               THEN Flatten([i \in 1..Len(group) |->
                        IF counts[i] # MostCommon(counts)
                        THEN <<Issue("sheet_count", group[i].filename, <<>>, <<>>,
                                     <<counts[i], MostCommon(counts)>>, <<tg[g].k>>, FALSE)>>
                        ELSE <<>>])
               ELSE <<>>
    IN Flatten([g \in 1..Len(tg) |-> OfGroup(g)])

\* plant -> the reports of the plant
RECURSIVE plant_groups(_)
plant_groups(infos) ==
    IF infos = <<>> THEN <<>>
    ELSE LET rest == plant_groups(SubSeq(infos, 1, Len(infos) - 1))
             info == infos[Len(infos)]
         IN IF info.plant_name # <<>>
            THEN DictPut(rest, info.plant_name,
                         Append(DictGet(rest, info.plant_name, <<>>), info))
            ELSE rest

\* plant -> the water types (出厂水, 原水, 管网水) of its reports
plant_types(infos, plant) ==
    {infos[i].water_type :
        i \in {k \in 1..Len(infos) :
                  /\ infos[k].plant_name = plant
                  /\ infos[k].water_type \in {ChuChangShui, YuanShui, GuanWangShui}}}

\* plants with an effluent report and no raw-water report, or the reverse
PlantTypeIssues(infos) ==
    LET plants == SortedStrings({infos[i].plant_name :
                      i \in {k \in 1..Len(infos) :
                                /\ infos[k].plant_name # <<>>
                                /\ infos[k].water_type \in {ChuChangShui, YuanShui, GuanWangShui}}})
        OfPlant(p) ==
            (IF ChuChangShui \in plant_types(infos, p) /\ YuanShui \notin plant_types(infos, p)
             THEN <<Issue("no_raw_report", p, <<>>, <<>>, <<>>, <<>>, FALSE)>> ELSE <<>>)
            \o
            (IF /\ YuanShui \in plant_types(infos, p) /\ ChuChangShui \notin plant_types(infos, p)
                /\ In(ShuiChang, p)
             THEN <<Issue("no_effluent_report", p, <<>>, <<>>, <<>>, <<>>, FALSE)>> ELSE <<>>)
    IN Flatten([i \in 1..Len(plants) |-> OfPlant(plants[i])])

ReadErrorIssues(infos) ==
    Flatten([i \in 1..Len(infos) |->
        IF infos[i].read_error
        THEN <<Issue("read_error", infos[i].filename, <<>>, <<>>, <<>>, <<>>, FALSE)>>
        ELSE <<>>])

(***************************************************************************)
(* Specification of main (analyze_reports.py)                              *)
(***************************************************************************)

V_05   == <<"0", ".", "5">>             \* 0.5
V_033  == <<"0", ".", "3", "3">>        \* 0.33
V_045  == <<"0", ".", "4", "5">>        \* 0.45
V_050  == <<"0", ".", "5", "0">>        \* 0.50
V_052  == <<"0", ".", "5", "2">>        \* 0.52
V_0123 == <<"0", ".", "1", "2", "3">>   \* 0.123
V_0124 == <<"0", ".", "1", "2", "4">>   \* 0.124
V_012  == <<"0", ".", "1", "2">>        \* 0.12

Letters == <<"A", "B", "C", "D", "E", "F", "G", "H">>

\* sample ids W260205C1, K260205C2, ...
Sid(class, n) == <<class, "2", "6", "0", "2", "0", "5", "C", Digits[n + 1]>>

\* plant names A水厂, B水厂, ...
Plant(n) == <<Letters[n]>> \o ShuiChang

\* file names such as 0189A水厂出厂水.xlsx
Numbered(number, desc) == number \o desc \o ExtXlsx
N0189 == <<"0", "1", "8", "9">>
N0190 == <<"0", "1", "9", "0">>
N0191 == <<"0", "1", "9", "1">>
N0193 == <<"0", "1", "9", "3">>
FileNumbers == <<N0189, N0190, N0191>>
BaoGao == <<"bao", "gao4">>            \* 报告

\* the items of a sample or report: turbidity 0.5 and, unless absent (None),
\* the chlorine item
ItemsWith(cl, val) ==
    <<[k |-> HunZhuoDu, v |-> V_05]>> \o (IF val = None THEN <<>> ELSE <<[k |-> cl, v |-> val]>>)

\* a readable report of three sheets holding the items as numbered rows
ReportFile(fname, sid, items) ==
    [fname |-> fname, opens |-> TRUE, sheet_count |-> 1 + 2, b1 |-> None, c8 |-> sid,
     rows |-> [i \in 1..Len(items) |-> Row(<<Digits[i + 1]>>, items[i].k, items[i].v)]]

\* a file that cannot be opened
Unopenable(file) ==
    [file EXCEPT !.opens = FALSE]

\* a file with a row whose column A holds "inf"
WithInfRow(file) ==
    [file EXCEPT !.rows = Append(@, Row(Inf, HunZhuoDu, V_05))]

OrigRecord(reg, data) == [present |-> TRUE, readable |-> TRUE, registry |-> reg, test_data |-> data]
NoOrigRecord == [present |-> FALSE, readable |-> FALSE, registry |-> <<>>, test_data |-> <<>>]
UnreadableOrigRecord == [present |-> TRUE, readable |-> FALSE, registry |-> <<>>, test_data |-> <<>>]

\* --- directories with one plant's samples and their reports -------------

ChlorineVals == {None, V_0, V_030, V_033, V_045, V_050, V_052, V_Lt005, V_ND}
ThirdVals == {V_0, V_030, V_050}

PairShapes ==
    { <<Plant(1) \o ChuChangShui, Plant(1) \o GuanWangShui>>,
      <<Plant(1) \o ChuChangShui, Plant(1) \o GuanWangMoShaoShui>>,
      <<Plant(1) \o ChuChangShui, Plant(2) \o GuanWangShui>> }
TripleShapes ==
    { <<Plant(1) \o ChuChangShui, Plant(1) \o GuanWangShui, Plant(1) \o GuanWangMoShaoShui>>,
      <<Plant(1) \o ChuChangShui, Plant(1) \o GuanWangShui,
        Plant(1) \o GuanWangShui \o <<"(", "2", ")">> >> }

\* the values per sample that go with a shape
ValuesFor(shape) ==
    IF Len(shape) = 2 THEN {<<a, b>> : a \in ChlorineVals, b \in ChlorineVals}
    ELSE {<<a, b, c>> : a \in ChlorineVals, b \in ChlorineVals, c \in ThirdVals}

\* the report values: those of the original record, or with the first two exchanged
Exchanged(vals) ==
    [i \in 1..Len(vals) |-> IF i = 1 THEN vals[2] ELSE IF i = 2 THEN vals[1] ELSE vals[i]]

PlantDirectory(shape, cl, vals, rvals) ==
    [orig |-> OrigRecord([i \in 1..Len(shape) |-> Entry(Sid("W", i), shape[i])],
                         [i \in 1..Len(shape) |-> [k |-> Sid("W", i), v |-> ItemsWith(cl, vals[i])]]),
     reports |-> {ReportFile(Numbered(FileNumbers[i], shape[i]), Sid("W", i), ItemsWith(cl, rvals[i])) :
                     i \in 1..Len(shape)}]

PlantDirectories ==
    UNION {{PlantDirectory(shape, cl, vals, IF ex THEN Exchanged(vals) ELSE vals) :
               cl \in Range(ChlorineItems), vals \in ValuesFor(shape), ex \in BOOLEAN} :
           shape \in PairShapes \cup TripleShapes}

\* --- directories whose files vary in name and readability --------------

MaxFiles == 3

PairRegistry ==
    <<Entry(Sid("W", 1), Plant(1) \o ChuChangShui), Entry(Sid("W", 2), Plant(1) \o GuanWangShui)>>
PairTestData ==
    <<[k |-> Sid("W", 1), v |-> ItemsWith(FreeCl, V_030)],
      [k |-> Sid("W", 2), v |-> ItemsWith(FreeCl, V_045)]>>

GoodFiles ==
    { ReportFile(Numbered(N0189, Plant(1) \o ChuChangShui), Sid("W", 1), ItemsWith(FreeCl, V_030)),
      ReportFile(Plant(1) \o ChuChangShui \o ExtXlsx, Sid("W", 1), ItemsWith(FreeCl, V_030)),
      ReportFile(Numbered(N0190, Plant(1) \o GuanWangShui), Sid("W", 2), ItemsWith(FreeCl, V_045)),
      ReportFile(Numbered(N0193, Plant(1) \o GuanWangShui), Sid("W", 2), ItemsWith(FreeCl, V_045)),
      ReportFile(Numbered(N0191, Plant(2) \o ChuChangShui), Sid("W", 3), ItemsWith(FreeCl, V_030)),
      ReportFile(BaoGao \o ExtXlsx, None, ItemsWith(FreeCl, V_030)) }

FilePool == UNION {{f, Unopenable(f), WithInfRow(f)} : f \in GoodFiles}

FileDirectories ==
    {[orig |-> o, reports |-> fs] :
        o \in {NoOrigRecord, UnreadableOrigRecord, OrigRecord(PairRegistry, PairTestData)},
        fs \in {S \in SUBSET FilePool :
                   /\ Cardinality(S) <= MaxFiles
                   /\ \A f \in S, g \in S : f.fname = g.fname => f = g}}

\* --- directories whose original record repeats a value -----------------

MaxSamples == 6
DupVals == {V_0123, V_0124, V_012}

\* n samples, the last one of class K when lastK
DupDirectory(n, vals, lastK) ==
    LET sid(i) == Sid(IF lastK /\ i = n THEN "K" ELSE "W", i)
    IN [orig |-> OrigRecord([i \in 1..n |-> Entry(sid(i), Plant(i) \o ChuChangShui)],
                            [i \in 1..n |-> [k |-> sid(i), v |-> <<[k |-> HunZhuoDu, v |-> vals[i]]>>]]),
        reports |-> {ReportFile(Numbered(N0189, Plant(1) \o ChuChangShui), sid(1),
                                <<[k |-> HunZhuoDu, v |-> vals[1]]>>)}]

DupDirectories ==
    UNION {{DupDirectory(n, vals, lastK) : vals \in [1..n -> DupVals], lastK \in BOOLEAN} :
           n \in 1..MaxSamples}

\* main starts on one of the given directories
\* main starts on one of the directories, in one of the modes
StartOf(directories, modes) ==
    /\ pc = "main"
    /\ directory \in directories
    /\ ori \in modes
    /\ now = 0 /\ generated = 0 /\ previous = <<>>
    /\ files = <<>>
    /\ registry = <<>> /\ orig_test_data = <<>> /\ issues_original = <<>>
    /\ all_info = <<>>
    /\ issues_naming = <<>> /\ issues_numbering = <<>> /\ issues_format = <<>>
    /\ issues_consistency = <<>> /\ issues_read_errors = <<>>
    /\ issues_cross_verify = <<>> /\ issues_cross_logic = <<>>
    /\ output = <<>>
    /\ IdleResolve /\ IdleVals

MainStart(directories) == StartOf(directories, {FALSE})

\* main on directories whose files vary in name and readability
InitMain == MainStart(FileDirectories)

\* main on directories with one plant's samples and their reports
InitOrdering == MainStart(PlantDirectories)

\* main on directories whose original record repeats a value
InitDup == MainStart(DupDirectories)

\* the report files are listed in sorted order; without any, main returns
ScanDirectory ==
    /\ pc = "main"
    /\ files' = SortedStrings({f.fname : f \in directory.reports})
    /\ pc' = IF files' = <<>> THEN "returned" ELSE "phase1"
    /\ UNCHANGED <<directory, phase1Vars, all_info, reportVars, crossVars, output,
                   runVars, resolveVars, valsVars>>

\* Phase 1: the original record is read and checked; a failure to read it
\* leaves the registry and the test data empty
ReadOriginalRecord ==
    /\ pc = "phase1"
    /\ IF directory.orig.present /\ directory.orig.readable
       THEN /\ registry' = directory.orig.registry
            /\ orig_test_data' = directory.orig.test_data
            /\ issues_original' = check_original_records(directory.orig.registry,
                                                          directory.orig.test_data)
       ELSE UNCHANGED phase1Vars
    /\ pc' = IF ori THEN "ori_output" ELSE "read_reports"
    /\ UNCHANGED <<directory, files, all_info, reportVars, crossVars, output,
                   runVars, resolveVars, valsVars>>

\* Phase 2: the next file is read into all_info
ReadReport ==
    /\ pc = "read_reports"
    /\ Len(all_info) < Len(files)
    /\ all_info' = Append(all_info, InfoOf(FileNamed(files[Len(all_info) + 1])))
    /\ UNCHANGED <<pc, directory, files, phase1Vars, reportVars, crossVars, output,
                   runVars, resolveVars, valsVars>>

\* the naming checks; min(nums) raises ValueError when no file name starts
\* with a number, and nothing catches it
NamingChecks ==
    /\ pc = "read_reports"
    /\ Len(all_info) = Len(files)
    /\ IF PrefixNumbers(files) = {}
       THEN /\ pc' = "raised"
            /\ UNCHANGED issues_naming
       ELSE /\ pc' = "checks"
            /\ issues_naming' = GapIssues(PrefixNumbers(files)) \o DupPrefixIssues(files)
    /\ UNCHANGED <<directory, files, phase1Vars, all_info, issues_numbering, issues_format,
                   issues_consistency, issues_read_errors, crossVars, output,
                   runVars, resolveVars, valsVars>>

\* the format, consistency and read-error checks
ReportChecks ==
    /\ pc = "checks"
    /\ issues_numbering' = NumberingIssues(all_info)
    /\ issues_format' = SheetCountIssues(all_info)
    /\ issues_consistency' = PlantTypeIssues(all_info)
    /\ issues_read_errors' = ReadErrorIssues(all_info)
    /\ pc' = "cross"
    /\ UNCHANGED <<directory, files, phase1Vars, all_info, issues_naming, crossVars,
                   output, runVars, resolveVars, valsVars>>

\* cross verification, only with a registry and test data
CrossVerify ==
    /\ pc = "cross"
    /\ IF registry # <<>> /\ orig_test_data # <<>>
       THEN \E r \in {cross_verify_reports(registry, orig_test_data, all_info)} :
                /\ issues_cross_verify' = r.verify
                /\ issues_cross_logic' = r.logic
       ELSE UNCHANGED crossVars
    /\ pc' = "output"
    /\ UNCHANGED <<directory, files, phase1Vars, all_info, reportVars, output,
                   runVars, resolveVars, valsVars>>

\* the sections of the issue list, in the order of the output file
AllSections ==
    issues_original \o issues_cross_verify \o issues_cross_logic \o issues_naming
    \o issues_numbering \o issues_format \o issues_consistency \o issues_read_errors

WriteOutput ==
    /\ pc = "output"
    /\ output' = AllSections
    /\ generated' = now
    /\ pc' = "done"
    /\ UNCHANGED <<directory, files, phase1Vars, all_info, reportVars, crossVars,
                   ori, now, previous, resolveVars, valsVars>>

NextMain ==
    \/ ScanDirectory
    \/ ReadOriginalRecord
    \/ ReadReport
    \/ NamingChecks
    \/ ReportChecks
    \/ CrossVerify
    \/ WriteOutput

\* -ori: the output lists the issues of the original record only
WriteOriOutput ==
    /\ pc = "ori_output"
    /\ output' = issues_original
    /\ generated' = now
    /\ pc' = "done"
    /\ UNCHANGED <<directory, files, phase1Vars, all_info, reportVars, crossVars,
                   ori, now, previous, resolveVars, valsVars>>

\* a second of the clock passes
MaxNow == 1
Tick ==
    /\ now < MaxNow
    /\ now' = now + 1
    /\ UNCHANGED <<pc, directory, files, phase1Vars, all_info, reportVars, crossVars,
                   output, ori, generated, previous, resolveVars, valsVars>>

\* the output text: the 生成时间 line and the numbered issues (the other lines
\* are fixed by the directory and the mode)
OutputText == [generated |-> generated, issues |-> output]

\* main is run once more on the unchanged directory, with the same arguments
MainAgain ==
    /\ pc = "done"
    /\ previous = <<>>
    /\ previous' = <<OutputText>>
    /\ pc' = "main"
    /\ files' = <<>>
    /\ registry' = <<>> /\ orig_test_data' = <<>> /\ issues_original' = <<>>
    /\ all_info' = <<>>
    /\ issues_naming' = <<>> /\ issues_numbering' = <<>> /\ issues_format' = <<>>
    /\ issues_consistency' = <<>> /\ issues_read_errors' = <<>>
    /\ issues_cross_verify' = <<>> /\ issues_cross_logic' = <<>>
    /\ output' = <<>>
    /\ generated' = 0
    /\ UNCHANGED <<directory, ori, now, resolveVars, valsVars>>

NextRuns ==
    \/ ScanDirectory
    \/ ReadOriginalRecord
    \/ ReadReport
    \/ NamingChecks
    \/ ReportChecks
    \/ CrossVerify
    \/ WriteOutput
    \/ WriteOriOutput
    \/ Tick
    \/ MainAgain

SpecMain == InitMain /\ [][NextMain]_vars
SpecOrdering == InitOrdering /\ [][NextMain]_vars
SpecDup == InitDup /\ [][NextMain]_vars

(***************************************************************************)
(* Claims on the duplicate-value rule (SpecDup)                            *)
(***************************************************************************)

\* check_original_records has run on the original record
OrigChecked == pc \notin {"main", "phase1"} /\ registry # <<>>

\* the W-class samples of the original record that hold val for the item, in
\* the order of the test data
SamplesWith(name, val) ==
    LET holders == SelectSeq(orig_test_data,
                       LAMBDA e : StartsWith(e.k, <<"W">>) /\ DictGet(e.v, name, None) = val)
    IN [i \in 1..Len(holders) |-> holders[i].k]

DuplicateIssuesFor(name, val) ==
    SelectSeq(issues_original,
              LAMBDA x : x.kind = "duplicate" /\ x.item = name /\ x.vals = <<val>>)

\* the values of the item with three or more decimal places
LongVals == {v \in DupVals : Len(v) - 2 >= 3}

\* C6 as stated: for an item and a value with three or more decimal places
\* reported by n W-class samples, exactly one issue is emitted when n >= 4 and
\* none when n <= 3, and the issue names every one of the n samples.
C6_DuplicateIssueNamesEverySample ==
    OrigChecked =>
        \A val \in LongVals :
            LET S == SamplesWith(HunZhuoDu, val)
                D == DuplicateIssuesFor(HunZhuoDu, val)
            IN /\ Len(S) >= 4 =>
                      /\ Len(D) = 1
                      /\ \A i \in 1..Len(S) : DescriptionOf(registry, S[i]) \in Range(D[1].refs)
               /\ Len(S) <= 3 => D = <<>>

\* C6, amended: exactly one issue when n >= 4 and none when n <= 3; the issue
\* states the count n and names the first min(n, 5) samples in test-data order,
\* ending with '...' when n > 5.  A value with fewer than three decimal places
\* never gives an issue.
C6_DuplicateIssueNamesFirstFive ==
    OrigChecked =>
        /\ \A val \in LongVals :
               LET S == SamplesWith(HunZhuoDu, val)
                   D == DuplicateIssuesFor(HunZhuoDu, val)
               IN /\ Len(S) >= 4 =>
                         /\ Len(D) = 1
                         /\ D[1].nums = <<Len(S)>>
                         /\ D[1].refs = [i \in 1..Min(Len(S), 5) |-> DescriptionOf(registry, S[i])]
                         /\ D[1].etc = (Len(S) > 5)
                  /\ Len(S) <= 3 => D = <<>>
        /\ \A val \in DupVals \ LongVals : DuplicateIssuesFor(HunZhuoDu, val) = <<>>

\* more than five W-class samples share a value and the issue is emitted
C6_Witness ==
    /\ OrigChecked
    /\ Len(SamplesWith(HunZhuoDu, V_0123)) > 5
    /\ DuplicateIssuesFor(HunZhuoDu, V_0123) # <<>>

(***************************************************************************)
(* Claims on the disinfectant-residual ordering (SpecOrdering)             *)
(***************************************************************************)

\* cross_verify_reports has run
CrossChecked == pc \in {"output", "done"} /\ registry # <<>> /\ orig_test_data # <<>>

\* the last registry sample of the plant and water type, <<>> when none
LastSample(plant, wtype) ==
    LET of == {i \in 1..Len(registry) :
                  /\ StartsWith(registry[i].sample_id, <<"W">>)
                  /\ extract_plant_from_desc(registry[i].description) = plant
                  /\ classify_sample_water_type(registry[i].description) = wtype}
    IN IF of = {} THEN <<>>
       ELSE registry[CHOOSE i \in of : \A k \in of : k <= i].sample_id

EffluentSample(plant) == LastSample(plant, ChuChangShui)

\* the distribution-network sample, the network-terminus sample when there is none
DistributionSample(plant) ==
    IF LastSample(plant, GuanWangShui) # <<>> THEN LastSample(plant, GuanWangShui)
    ELSE LastSample(plant, GuanWangMoShaoShui)

\* the number the original record holds for the sample and item ("<" dropped)
OrigNumber(sid, cl) ==
    ParseFloat(RemoveChar(DictGet(DictGet(orig_test_data, sid, <<>>), cl, <<>>), "<"))

\* the last report read that carries the sample id
ReportOf(sid) ==
    all_info[CHOOSE i \in 1..Len(all_info) :
                 /\ all_info[i].sample_id = sid
                 /\ \A k \in (i + 1)..Len(all_info) : all_info[k].sample_id # sid]

\* the number the sample's report holds for the item ("<" and "＜" dropped)
ReportNumber(sid, cl) ==
    LET items == ReportOf(sid).test_items
        m == find_matching_report_item(items, cl)
    IN IF m = 0 THEN NaN ELSE ResultNumber(items[m].result)

HasPair(plant) == EffluentSample(plant) # <<>> /\ DistributionSample(plant) # <<>>

OrigOrderingIssues(plant, cl) ==
    SelectSeq(issues_original,
              LAMBDA x : x.kind = "order_orig" /\ x.subject = plant /\ x.item = cl)

CrossOrderingIssues(plant, cl) ==
    SelectSeq(issues_cross_logic,
              LAMBDA x : x.kind = "order_cross" /\ x.subject = plant /\ x.item = cl)

Plants == {Plant(1), Plant(2)}

\* C7 as stated: for a plant with an effluent and a distribution-network sample
\* holding numeric values, an ordering issue is emitted if and only if the
\* distribution value exceeds the effluent value times 1.1, in the
\* original-record check and in the cross-report check.
C7_OrderingIffExceeds ==
    \A plant \in Plants, c \in 1..Len(ChlorineItems) :
        LET cl == ChlorineItems[c]
            eo == OrigNumber(EffluentSample(plant), cl)
            do == OrigNumber(DistributionSample(plant), cl)
            er == ReportNumber(EffluentSample(plant), cl)
            dr == ReportNumber(DistributionSample(plant), cl)
        IN /\ (OrigChecked /\ HasPair(plant) /\ eo.ok /\ do.ok) =>
                  (OrigOrderingIssues(plant, cl) # <<>> <=> do.num * 10 > eo.num * 11)
           /\ (CrossChecked /\ HasPair(plant) /\ er.ok /\ dr.ok) =>
                  (CrossOrderingIssues(plant, cl) # <<>> <=> dr.num * 10 > er.num * 11)

\* C7, amended: an ordering issue is emitted, once, if and only if both values
\* are numeric, the effluent value is greater than 0 and the distribution value
\* exceeds the effluent value times 1.1; the samples compared are the plant's
\* last effluent sample and its last distribution-network sample (the last
\* network-terminus sample when there is none); the original-record check
\* compares the values of the original record, the cross-report check those of
\* the samples' reports.
C7_OrderingIffExceedsPositiveEffluent ==
    \A plant \in Plants, c \in 1..Len(ChlorineItems) :
        LET cl == ChlorineItems[c]
            eo == OrigNumber(EffluentSample(plant), cl)
            do == OrigNumber(DistributionSample(plant), cl)
            er == ReportNumber(EffluentSample(plant), cl)
            dr == ReportNumber(DistributionSample(plant), cl)
        IN /\ OrigChecked =>
                  Len(OrigOrderingIssues(plant, cl)) =
                      IF /\ HasPair(plant) /\ eo.ok /\ do.ok
                         /\ eo.num > 0 /\ do.num * 10 > eo.num * 11
                      THEN 1 ELSE 0
           /\ CrossChecked =>
                  Len(CrossOrderingIssues(plant, cl)) =
                      IF /\ HasPair(plant) /\ er.ok /\ dr.ok
                         /\ er.num > 0 /\ dr.num * 10 > er.num * 11
                      THEN 1 ELSE 0

\* both checks have emitted the issue for a plant whose samples hold numeric
\* values
C7_Witness ==
    /\ CrossChecked
    /\ HasPair(Plant(1))
    /\ OrigNumber(EffluentSample(Plant(1)), FreeCl).ok
    /\ OrigOrderingIssues(Plant(1), FreeCl) # <<>>
    /\ CrossOrderingIssues(Plant(1), FreeCl) # <<>>

\* the directory of the end-to-end scenario: effluent 0.30 and distribution
\* 0.45 in the original record and in the two reports
EndToEndDirectory ==
    PlantDirectory(<<Plant(1) \o ChuChangShui, Plant(1) \o GuanWangShui>>, FreeCl,
                   <<V_030, V_045>>, <<V_030, V_045>>)

OrderingKinds == {"order_orig", "order_cross"}

\* C8 as stated: in the end-to-end scenario the pipeline emits exactly one
\* ordering issue, the issue references both reports, and no issue of another
\* category is emitted.
C8_ExactlyOneOrderingIssue ==
    (pc = "done" /\ directory = EndToEndDirectory) =>
        /\ Cardinality({i \in 1..Len(output) : output[i].kind \in OrderingKinds}) = 1
        /\ \A i \in 1..Len(output) :
               /\ output[i].kind \in OrderingKinds
               /\ Range(output[i].refs) = {f.fname : f \in directory.reports}

(***************************************************************************)
(* Claims on errors (SpecMain)                                             *)
(***************************************************************************)

\* C9 as stated: with at least one report file in the directory, main reaches
\* the output step; no error aborts the run.
C9_NoErrorAbortsBatch ==
    directory.reports # {} => pc # "raised"

FailedFiles == {i \in 1..Len(all_info) : all_info[i].read_error}

\* the file names of the reports in the groupings
JoinedBySampleId == {sid_to_report(all_info)[i].v.filename : i \in 1..Len(sid_to_report(all_info))}
InCohorts ==
    UNION {{type_groups(all_info)[g].v[i].filename : i \in 1..Len(type_groups(all_info)[g].v)} :
              g \in 1..Len(type_groups(all_info))}
InPlantGroups ==
    UNION {{plant_groups(all_info)[g].v[i].filename : i \in 1..Len(plant_groups(all_info)[g].v)} :
              g \in 1..Len(plant_groups(all_info))}

\* C10 as stated: a file whose reading raised an error yields exactly one
\* read-error issue naming it, the other files are processed, and the file is
\* in no sample-id join, water-type cohort or plant group.
C10_FailedFileExcluded ==
    pc = "done" =>
        /\ Len(all_info) = Len(files)
        /\ \A i \in FailedFiles :
               /\ Cardinality({k \in 1..Len(output) :
                      output[k].kind = "read_error" /\ output[k].subject = all_info[i].filename}) = 1
               /\ all_info[i].filename \notin JoinedBySampleId
               /\ all_info[i].filename \notin InCohorts
               /\ all_info[i].filename \notin InPlantGroups

(***************************************************************************)
(* Claims on the joins by sample id and report number (SpecJoin)           *)
(***************************************************************************)

MaxJoinFiles == 2

\* cell B1 of a cover page: 第(0189)号, and 第 ( 0190 ) 号 with blanks
CoverNumber(number) == <<"di5", "(">> \o number \o <<")", "hao4">>
CoverNumberSpaced(number) == <<"di5", " ", "(", " ">> \o number \o <<" ", ")", " ", "hao4">>

WithB1(file, b1) == [file EXCEPT !.b1 = b1]

\* registries of one sample, of two samples, and with a sample id on two rows
JoinRegistries ==
    { <<Entry(Sid("W", 1), Plant(1) \o ChuChangShui)>>,
      <<Entry(Sid("W", 1), Plant(1) \o ChuChangShui), Entry(Sid("W", 2), Plant(1) \o GuanWangShui)>>,
      <<Entry(Sid("W", 1), Plant(1) \o ChuChangShui), Entry(Sid("W", 1), Plant(2) \o ChuChangShui)>> }

\* the test data of the samples of a registry: free chlorine 0.30 and 0.45
JoinTestData(reg) ==
    IF \E i \in 1..Len(reg) : reg[i].sample_id = Sid("W", 2)
    THEN PairTestData
    ELSE SubSeq(PairTestData, 1, 1)

\* files 0189A水厂出厂水.xlsx, 0189A水厂管网水.xlsx and 0190A水厂管网水.xlsx with
\* either sample id, any of the cover numbers and either value
JoinFilePool ==
    {WithB1(ReportFile(Numbered(nd[1], nd[2]), Sid("W", n), ItemsWith(FreeCl, val)), b1) :
        nd \in { <<N0189, Plant(1) \o ChuChangShui>>, <<N0189, Plant(1) \o GuanWangShui>>,
                 <<N0190, Plant(1) \o GuanWangShui>> },
        n \in 1..2,
        b1 \in {None, CoverNumber(N0189), CoverNumberSpaced(N0190)},
        val \in {V_030, V_045}}

\* the subsets of S of at most n elements
RECURSIVE SubsetsUpTo(_, _)
SubsetsUpTo(S, n) ==
    IF n = 0 THEN {{}}
    ELSE SubsetsUpTo(S, n - 1) \cup {T \cup {x} : T \in SubsetsUpTo(S, n - 1), x \in S}

JoinDirectories ==
    {[orig |-> OrigRecord(reg, JoinTestData(reg)), reports |-> fs] :
        reg \in JoinRegistries,
        fs \in {S \in SubsetsUpTo(JoinFilePool, MaxJoinFiles) :
                   \A f \in S, g \in S : f.fname = g.fname => f = g}}

V_12 == <<"1", ".", "2">>     \* 1.2
V_15 == <<"1", ".", "5">>     \* 1.5

\* a second item of the original record: 钙, 钙(Ca), 钙镁, 电导率 (25),
\* 肉眼可见物, 臭和味, 溶解氧
SecondItems ==
    { <<"gai">>, <<"gai", "(", "C", "a", ")">>, <<"gai", "mei">>,
      <<"dian", "dao", "lv", " ", "(", "2", "5", ")">>,
      <<"rou", "yan3", "ke", "jian4", "wu4">>, <<"chou", "he2", "wei4">>,
      <<"rong", "jie", "yang">> }

\* one sample with turbidity 0.5 and a second item 1.2; its report holds the
\* turbidity rval and, when included, the second item with 1.5
ItemDirectory(desc, second, rval, included) ==
    [orig |-> OrigRecord(<<Entry(Sid("W", 1), desc)>>,
                         <<[k |-> Sid("W", 1),
                            v |-> <<[k |-> HunZhuoDu, v |-> V_05], [k |-> second, v |-> V_12]>>]>>),
     reports |-> {ReportFile(Numbered(N0189, desc), Sid("W", 1),
                             <<[k |-> HunZhuoDu, v |-> rval]>>
                             \o (IF included THEN <<[k |-> second, v |-> V_15]>> ELSE <<>>))}]

ItemDirectories ==
    {ItemDirectory(desc, second, rval, included) :
        desc \in {Plant(1) \o ChuChangShui, Plant(1) \o YuanShui},
        second \in SecondItems, rval \in {V_05, V_045}, included \in BOOLEAN}

InitItems == MainStart(ItemDirectories)
SpecItems == InitItems /\ [][NextMain]_vars

\* main on directories whose registry rows and reports share identifiers
InitJoin == MainStart(JoinDirectories)

SpecJoin == InitJoin /\ [][NextMain]_vars

\* the sample ids that several rows of the registry hold
RegistryDuplicates ==
    {registry[k].sample_id :
        k \in {i \in 1..Len(registry) :
                  \E j \in 1..(i - 1) : registry[j].sample_id = registry[i].sample_id}}

\* the sample ids that several reports carry
ReportSidDuplicates ==
    {all_info[k].sample_id :
        k \in {i \in 1..Len(all_info) :
                  /\ all_info[i].sample_id # <<>>
                  /\ \E j \in 1..(i - 1) : all_info[j].sample_id = all_info[i].sample_id}}

\* the report numbers that several reports carry
ReportNumberDuplicates ==
    {all_info[k].report_number :
        k \in {i \in 1..Len(all_info) :
                  /\ all_info[i].report_number # <<>>
                  /\ \E j \in 1..(i - 1) : all_info[j].report_number = all_info[i].report_number}}

\* the kinds of issue that report a repeated identifier
DuplicateKinds == {"dup_prefix", "dup_report_number"}

\* an issue of the output reports the identifier as repeated
FlaggedAsDuplicate(id) ==
    \E k \in 1..Len(output) :
        /\ output[k].kind \in DuplicateKinds
        /\ output[k].subject = id \/ id \in Range(output[k].vals)

\* C11 as stated: a sample id on two rows of the registry, a sample id in two
\* reports and a report number in two reports are each reported by an issue,
\* and every report that carries a sample id is in the join by sample id.
C11_DuplicatesFlagged ==
    pc = "done" =>
        /\ \A sid \in RegistryDuplicates : FlaggedAsDuplicate(sid)
        /\ \A sid \in ReportSidDuplicates : FlaggedAsDuplicate(sid)
        /\ \A rn \in ReportNumberDuplicates : FlaggedAsDuplicate(rn)
        /\ \A i \in 1..Len(all_info) :
               all_info[i].sample_id # <<>> => all_info[i].filename \in JoinedBySampleId

\* what the code does give: a report number in two reports is reported
DuplicateReportNumbersFlagged ==
    pc = "done" => \A rn \in ReportNumberDuplicates : FlaggedAsDuplicate(rn)

\* the issues of section D on the item of the report
ItemIssues(fname, name) ==
    {k \in 1..Len(issues_cross_verify) :
        /\ issues_cross_verify[k].kind \in {"missing_item", "value_diff", "digits_diff"}
        /\ issues_cross_verify[k].subject = fname
        /\ issues_cross_verify[k].item = name}

\* the registry rows whose sample has a report and test data
JoinedRows ==
    {e \in 1..Len(registry) :
        /\ HasKey(sid_to_report(all_info), registry[e].sample_id)
        /\ HasKey(orig_test_data, registry[e].sample_id)}

\* the report of the row's sample, and the items of the sample
ReportOfRow(e) == DictGet(sid_to_report(all_info), registry[e].sample_id, <<>>)
ItemsOfRow(e) == DictGet(orig_test_data, registry[e].sample_id, <<>>)

\* the item is compared with a matched report item, or reported as missing
ComparedOrReported(rep, name, val) ==
    IF find_matching_report_item(rep.test_items, name) = 0
    THEN \E k \in ItemIssues(rep.filename, name) : issues_cross_verify[k].kind = "missing_item"
    ELSE (ItemIssues(rep.filename, name) = {}
            <=> vals_match(val, rep.test_items[find_matching_report_item(rep.test_items, name)].result))

\* the items section D passes over: base name 钙, 镁, 电导率 or 水温, and for a
\* raw-water sample 肉眼可见物 and 臭和味
PassedOver(entry, name) ==
    \/ BaseName(name) \in { <<"gai">>, <<"mei">>, <<"dian", "dao", "lv">>, <<"shui", "wen">> }
    \/ /\ In(YuanShui, entry.description)
       /\ name \in { <<"rou", "yan3", "ke", "jian4", "wu4">>, <<"chou", "he2", "wei4">> }

\* C12 as stated: every item of the original record of a registry sample that
\* has a report is compared with a matched report item or reported as missing.
C12_NoItemDropped ==
    CrossChecked =>
        \A e \in JoinedRows : \A j \in 1..Len(ItemsOfRow(e)) :
            ComparedOrReported(ReportOfRow(e), ItemsOfRow(e)[j].k, ItemsOfRow(e)[j].v)

\* C12 (amended): every item of the original record of a registry sample that
\* has a report is compared with a matched report item or reported as missing,
\* except the items whose base name (the text before a parenthesis or blank)
\* is 钙, 镁, 电导率 or 水温 and, for a raw-water sample, the items 肉眼可见物
\* and 臭和味: those are passed over without any issue.
C12_NoItemDroppedButPassedOver ==
    CrossChecked =>
        \A e \in JoinedRows : \A j \in 1..Len(ItemsOfRow(e)) :
            IF PassedOver(registry[e], ItemsOfRow(e)[j].k)
            THEN ItemIssues(ReportOfRow(e).filename, ItemsOfRow(e)[j].k) = {}
            ELSE ComparedOrReported(ReportOfRow(e), ItemsOfRow(e)[j].k, ItemsOfRow(e)[j].v)

\* a raw-water sample whose 肉眼可见物 the report holds with another value is
\* passed over, while its turbidity 0.5 against 0.45 is reported
C12_Witness ==
    /\ CrossChecked
    /\ JoinedRows = {1}
    /\ In(YuanShui, registry[1].description)
    /\ HasKey(ItemsOfRow(1), <<"rou", "yan3", "ke", "jian4", "wu4">>)
    /\ find_matching_report_item(ReportOfRow(1).test_items, <<"rou", "yan3", "ke", "jian4", "wu4">>) # 0
    /\ ItemIssues(ReportOfRow(1).filename, <<"rou", "yan3", "ke", "jian4", "wu4">>) = {}
    /\ ItemIssues(ReportOfRow(1).filename, HunZhuoDu) # {}

(***************************************************************************)
(* Claims on the order of all_info                                         *)
(***************************************************************************)

\* the orders in which the same reports can have been inserted into all_info
Reorderings(infos) ==
    {[i \in 1..Len(infos) |-> infos[p[i]]] :
        p \in {q \in [1..Len(infos) -> 1..Len(infos)] :
                 \A i, j \in 1..Len(infos) : q[i] = q[j] => i = j}}

\* the set of issues cross_verify_reports returns
IssueSet(r) == Range(r.verify) \cup Range(r.logic)

\* C13 as stated: for the reports read and the original record, the set of
\* issues cross_verify_reports returns is the same for every order in which
\* the reports are inserted into all_info.
C13_OrderIndependent ==
    CrossChecked =>
        \A infos \in Reorderings(all_info) :
            IssueSet(cross_verify_reports(registry, orig_test_data, infos))
                = Range(issues_cross_verify) \cup Range(issues_cross_logic)

(***************************************************************************)
(* Claims on repeated runs and on the registry-only mode (SpecRuns)        *)
(***************************************************************************)

MaxRunFiles == 2

RunFilePool ==
    { ReportFile(Numbered(N0189, Plant(1) \o ChuChangShui), Sid("W", 1), ItemsWith(FreeCl, V_030)),
      ReportFile(Numbered(N0189, Plant(1) \o ChuChangShui), Sid("W", 1), ItemsWith(FreeCl, V_045)),
      ReportFile(Numbered(N0190, Plant(1) \o GuanWangShui), Sid("W", 2), ItemsWith(FreeCl, V_045)),
      Unopenable(ReportFile(Numbered(N0193, Plant(1) \o GuanWangShui), Sid("W", 2), ItemsWith(FreeCl, V_045))) }

\* directories with and without an original record, holding up to
\* MaxRunFiles report files, or none
RunDirectories ==
    {[orig |-> o, reports |-> fs] :
        o \in {NoOrigRecord, UnreadableOrigRecord, OrigRecord(PairRegistry, PairTestData)},
        fs \in {S \in SubsetsUpTo(RunFilePool, MaxRunFiles) :
                   \A f \in S, g \in S : f.fname = g.fname => f = g}}

\* main with and without -ori
InitRuns == StartOf(RunDirectories, BOOLEAN)
SpecRuns == InitRuns /\ [][NextRuns]_vars

\* C14 as stated: the output text of a second run of main on the unchanged
\* directory is identical to the output text of the first run.
C14_SecondRunIdentical ==
    (pc = "done" /\ previous # <<>>) => previous[1] = OutputText

\* the issues check_original_records gives on the directory's original record
IssuesOfOriginalRecord(dir) ==
    IF dir.orig.present /\ dir.orig.readable
    THEN check_original_records(dir.orig.registry, dir.orig.test_data)
    ELSE <<>>

\* C15 as stated: a run with -ori reads and checks no report file and ends
\* with an output that lists exactly the issues of check_original_records on
\* the original record, whatever report files the directory holds.
C15_RegistryOnly ==
    (ori /\ pc \in {"done", "returned", "raised"}) =>
        /\ pc = "done"
        /\ output = IssuesOfOriginalRecord(directory)
        /\ all_info = <<>>
        /\ issues_naming = <<>> /\ issues_numbering = <<>> /\ issues_format = <<>>
        /\ issues_consistency = <<>> /\ issues_read_errors = <<>>
        /\ issues_cross_verify = <<>> /\ issues_cross_logic = <<>>

(***************************************************************************)
(* Claim on zero and non-detect (SpecVals)                                 *)
(***************************************************************************)

\* C17: "0" and 未检出 match in both directions: a pair holding one of them as
\* the original value and the other as the report's result is accepted by
\* vals_match of analyze_reports.py and by vals_match of cross_verify.py.
C17_ZeroNonDetectMutual ==
    {orig_val, result} = {V_0, V_ND} =>
        /\ tag \in {"pending", "none"}
        /\ cv_issue \in {"pending", "none"}

\* the original record holds 未检出 and the report 0, and both comparators
\* have accepted the pair
C17_Witness ==
    /\ orig_val = V_ND /\ result = V_0
    /\ tag = "none" /\ cv_issue = "none"

(***************************************************************************)
(* Claim on the priority of the resolution steps (SpecResolve)             *)
(***************************************************************************)

\* the steps of name resolution, for one candidate
ExactStep(o_name, i_name) == i_name = o_name
AliasStep(o_name, i_name) == AliasOf(o_name) \notin {None, <<>>} /\ i_name = AliasOf(o_name)
FullNameStep(o_name, i_name) ==
    /\ In(o_name, i_name) \/ In(i_name, o_name)
    /\ ~is_false_substring_match(o_name, i_name)
StrippedStep(o_name, i_name) ==
    /\ StripParenthetical(o_name) # <<>>
    /\ StripParenthetical(i_name) # <<>>
    /\ Len(StripParenthetical(o_name)) > 1
    /\ \/ In(StripParenthetical(o_name), StripParenthetical(i_name))
       \/ In(StripParenthetical(i_name), StripParenthetical(o_name))
    /\ ~is_false_substring_match(o_name, i_name)

\* the highest-priority step (1 exact .. 4 stripped) at which the candidate
\* matches, 5 when it matches at none
StepOf(o_name, i_name) ==
    IF ExactStep(o_name, i_name) THEN 1
    ELSE IF AliasStep(o_name, i_name) THEN 2
    ELSE IF FullNameStep(o_name, i_name) THEN 3
    ELSE IF StrippedStep(o_name, i_name) THEN 4
    ELSE 5

\* C18 as stated: the returned candidate matches at the highest-priority step
\* at which any candidate of the list matches, and none is returned only
\* when no candidate matches at any step.
C18_StepsInPriorityOrder ==
    pc = "resolved" =>
        IF matched = 0
        THEN \A i \in 1..Len(test_items) : StepOf(orig_name, test_items[i].name) = 5
        ELSE \A i \in 1..Len(test_items) :
                StepOf(orig_name, MatchedName) <= StepOf(orig_name, test_items[i].name)

(***************************************************************************)
(* Claim on the permanganate index of effluent and raw water (SpecKMnO)    *)
(***************************************************************************)

V_20 == <<"2", ".", "0">>     \* 2.0
V_25 == <<"2", ".", "5">>     \* 2.5
V_28 == <<"2", ".", "8">>     \* 2.8
V_32 == <<"3", ".", "2">>     \* 3.2

\* the effluent sample and the raw-water sample of one plant, each with a
\* report that holds the value of the original record
KMnODirectory(o_key, r_key, cc_val, yw_val) ==
    [orig |-> OrigRecord(<<Entry(Sid("W", 1), Plant(1) \o ChuChangShui),
                           Entry(Sid("W", 2), Plant(1) \o YuanShui)>>,
                         <<[k |-> Sid("W", 1), v |-> <<[k |-> o_key, v |-> cc_val]>>],
                           [k |-> Sid("W", 2), v |-> <<[k |-> o_key, v |-> yw_val]>>]>>),
     reports |-> {ReportFile(Numbered(N0189, Plant(1) \o ChuChangShui), Sid("W", 1),
                             <<[k |-> r_key, v |-> cc_val]>>),
                  ReportFile(Numbered(N0190, Plant(1) \o YuanShui), Sid("W", 2),
                             <<[k |-> r_key, v |-> yw_val]>>)}]

KMnODirectories ==
    {KMnODirectory(o_key, r_key, cc_val, yw_val) :
        o_key \in {KMnO, KMnO_O2}, r_key \in {KMnO, KMnO_O2},
        cc_val \in {V_20, V_25, V_28, V_32, V_ND}, yw_val \in {V_20, V_25}}

InitKMnO == MainStart(KMnODirectories)
SpecKMnO == InitKMnO /\ [][NextMain]_vars

\* the permanganate index the original record holds for the sample
KMnOOf(sid) ==
    ParseFloat(IF DictGet(DictGet(orig_test_data, sid, <<>>), KMnO, <<>>) # <<>>
               THEN DictGet(DictGet(orig_test_data, sid, <<>>), KMnO, <<>>)
               ELSE DictGet(DictGet(orig_test_data, sid, <<>>), KMnO_O2, <<>>))

HasIssueOfKind(kind) == \E k \in 1..Len(output) : output[k].kind = kind

\* C19 as stated: when the effluent permanganate index exceeds the raw-water
\* one times 1.2, both the original-record check and the cross-report check
\* emit an issue.
C19_OneThreshold ==
    (/\ pc = "done"
     /\ KMnOOf(Sid("W", 1)).ok /\ KMnOOf(Sid("W", 2)).ok
     /\ KMnOOf(Sid("W", 1)).num * 10 > KMnOOf(Sid("W", 2)).num * 12) =>
        HasIssueOfKind("kmno_orig") /\ HasIssueOfKind("kmno_cross")

(***************************************************************************)
(* Claim on the water types of repeated values (SpecDupTypes)              *)
(***************************************************************************)

TypedSamples == 4

\* TypedSamples samples of different plants, each effluent or raw water
TypedDupDirectory(types, vals) ==
    [orig |-> OrigRecord([i \in 1..TypedSamples |-> Entry(Sid("W", i), Plant(i) \o types[i])],
                         [i \in 1..TypedSamples |->
                             [k |-> Sid("W", i), v |-> <<[k |-> HunZhuoDu, v |-> vals[i]]>>]]),
     reports |-> {ReportFile(Numbered(N0189, Plant(1) \o types[1]), Sid("W", 1),
                             <<[k |-> HunZhuoDu, v |-> vals[1]]>>)}]

TypedDupDirectories ==
    {TypedDupDirectory(types, vals) :
        types \in [1..TypedSamples -> {ChuChangShui, YuanShui}],
        vals \in [1..TypedSamples -> {V_0123, V_0124}]}

InitDupTypes == MainStart(TypedDupDirectories)
SpecDupTypes == InitDupTypes /\ [][NextMain]_vars

\* the registry samples of the water type that hold val for the item
SamplesOfTypeWith(wtype, name, val) ==
    {i \in 1..Len(registry) :
        /\ classify_sample_water_type(registry[i].description) = wtype
        /\ DictGet(DictGet(orig_test_data, registry[i].sample_id, <<>>), name, <<>>) = val}

\* C20 as stated: a duplicate-value issue for an item and a value is emitted
\* only when at least 4 samples of one water type hold that value.
C20_CountsPerWaterType ==
    OrigChecked =>
        \A k \in 1..Len(issues_original) :
            issues_original[k].kind = "duplicate" =>
                \E wtype \in {ChuChangShui, YuanShui} :
                    Cardinality(SamplesOfTypeWith(wtype, issues_original[k].item,
                                                  issues_original[k].vals[1])) >= DupMin

(***************************************************************************)
(* Claim on the comparator as a relation (SpecVals)                        *)
(***************************************************************************)

\* the value strings a third party to a comparison can hold
ComparedVals == OrigVals \cup (ResultCells \ {None})

\* C30: vals_match of analyze_reports.py is an equivalence relation on value
\* strings: every value matches itself, the verdict on a compared pair is the
\* verdict on the pair with the roles of original record and report
\* exchanged, and a pair that matched stays matched through any third value
\* the report's value matches.
C30_ValsMatchIsEquivalence ==
    tag \in {"none", "value", "digits"} =>
        /\ vals_match(orig_val, orig_val) /\ vals_match(result, result)
        /\ (tag = "none") = vals_match(result, orig_val)
        /\ \A c \in ComparedVals :
              (tag = "none" /\ vals_match(result, c)) => vals_match(orig_val, c)

\* the original record holds 未检出, the report 0, and the pair was accepted:
\* a match that is neither an equality nor trivially symmetric
C30_Witness ==
    /\ orig_val = V_ND /\ result = V_0 /\ tag = "none"
    /\ vals_match(result, orig_val)
    /\ \E c \in ComparedVals : c # V_0 /\ c # V_ND /\ ~vals_match(result, c)

(***************************************************************************)
(* Specifications of single calls                                          *)
(***************************************************************************)

\* the state outside the call
outsideCall == <<orig_val, d_val, result, tag, cv_issue, value_str, sf, resolveVars, mainVars>>
IdleOutsideCall ==
    /\ orig_val = <<>> /\ d_val = <<>> /\ result = <<>> /\ tag = "idle" /\ cv_issue = "idle"
    /\ IdleDigits /\ IdleResolve /\ IdleMain

(***************************************************************************)
(* Claim on the water types (SpecClassify)                                 *)
(***************************************************************************)

MaxFragments == 2

\* the pieces descriptions and file names are built of
Fragments ==
    { <<"A">>, ShuiChang, ErCiGongShui, NongYinShui, NongCun, ShengHuoYinYongShui,
      ZhuanGongShui, RiJianJiuXiang, SongJian, KMnO, YuanShui, ChuChangShui,
      GuanWang, GuanWangShui, GuanWangMoShaoShui, <<"shui">> }

RECURSIVE TextsOf(_)
TextsOf(n) ==
    IF n = 0 THEN {<<>>}
    ELSE TextsOf(n - 1) \cup {t \o f : t \in TextsOf(n - 1), f \in Fragments}

InitClassify ==
    /\ pc = "classify"
    /\ locals \in {[text |-> t] : t \in TextsOf(MaxFragments)}
    /\ IdleOutsideCall

\* the text is classified as a sample description and as a file name
Classify ==
    /\ pc = "classify"
    /\ locals' = [text |-> locals.text,
                  sample_type |-> classify_sample_water_type(locals.text),
                  file_type |-> classify_water_type(locals.text)]
    /\ pc' = "classified"
    /\ UNCHANGED outsideCall

NextClassify == Classify

SpecClassify == InitClassify /\ [][NextClassify]_vars

\* the seven water types
WaterTypes ==
    {YuanShui, ChuChangShui, GuanWangShui, GuanWangMoShaoShui, ErCiGongShui, NongYinShui, WeiZhi}

\* the ordered keyword list of descriptions and the one of file names, each
\* keyword with its type
SampleKeywords ==
    << <<ErCiGongShui, ErCiGongShui>>, <<NongYinShui, NongYinShui>>, <<NongCun, NongYinShui>>,
       <<GuanWangMoShao, GuanWangMoShaoShui>>, <<GuanWang, GuanWangShui>>,
       <<ChuChangShui, ChuChangShui>>, <<YuanShui, YuanShui>> >>
FileKeywords ==
    << <<ErCiGongShui, ErCiGongShui>>, <<NongYinShui, NongYinShui>>,
       <<ShengHuoYinYongShui, NongYinShui>>, <<ZhuanGongShui, ZhuanGongShui>>,
       <<RiJianJiuXiang, RiJianJiuXiang>>, <<SongJian, SongJian>>, <<KMnO, KMnO>>,
       <<YuanShui, YuanShui>>, <<ChuChangShui, ChuChangShui>>, <<GuanWang, GuanWangShui>> >>

\* the type of the first keyword of the list that occurs in the text
FirstKeywordType(keywords, text) ==
    IF \E k \in 1..Len(keywords) : In(keywords[k][1], text)
    THEN keywords[CHOOSE k \in 1..Len(keywords) :
                     /\ In(keywords[k][1], text)
                     /\ \A j \in 1..(k - 1) : ~In(keywords[j][1], text)][2]
    ELSE WeiZhi

\* C25 as stated: the type derived from a description and the type derived
\* from a file name are among the seven water types, each the type of the
\* first keyword of its ordered list that occurs in the text.
C25_ClosedEnumeration ==
    pc = "classified" =>
        /\ locals.sample_type \in WaterTypes
        /\ locals.file_type \in WaterTypes
        /\ locals.sample_type = FirstKeywordType(SampleKeywords, locals.text)
        /\ locals.file_type = FirstKeywordType(FileKeywords, locals.text)

\* C25 (amended): the type derived from a description is one of the seven
\* water types; the type derived from a file name is one of raw, effluent,
\* distribution-network, secondary-supply, rural, unknown or of the report
\* kinds 转供水, 日检九项, 送检 and 高锰酸盐指数, and never network-terminus;
\* each is the type of the first keyword of its own ordered list that occurs
\* in the text.
C25_FirstKeywordOfOwnList ==
    pc = "classified" =>
        /\ locals.sample_type \in WaterTypes
        /\ locals.file_type \in (WaterTypes \ {GuanWangMoShaoShui})
                                 \cup {ZhuanGongShui, RiJianJiuXiang, SongJian, KMnO}
        /\ locals.sample_type = FirstKeywordType(SampleKeywords, locals.text)
        /\ locals.file_type = FirstKeywordType(FileKeywords, locals.text)

\* a text naming raw water before effluent is raw water as a file name and
\* effluent as a description
C25_Witness ==
    /\ pc = "classified"
    /\ locals.text = YuanShui \o ChuChangShui
    /\ locals.file_type = YuanShui
    /\ locals.sample_type = ChuChangShui

(***************************************************************************)
(* Claim on the gaps in the file numbers (SpecGaps)                        *)
(***************************************************************************)

GapSpan == 6
FirstNumber == 189

\* the number as a four-digit prefix
NumberString(n) ==
    <<Digits[((n \div 1000) % 10) + 1], Digits[((n \div 100) % 10) + 1],
      Digits[((n \div 10) % 10) + 1], Digits[(n % 10) + 1]>>

NumberedFile(n) ==
    ReportFile(Numbered(NumberString(n), Plant(1) \o ChuChangShui), None,
               ItemsWith(FreeCl, V_030))

\* directories without an original record whose files carry some of the
\* numbers FirstNumber .. FirstNumber + GapSpan - 1, with or without a file
\* that has no number
GapDirectories ==
    {[orig |-> NoOrigRecord,
      reports |-> {NumberedFile(n) : n \in S}
                  \cup (IF plain THEN {ReportFile(BaoGao \o ExtXlsx, None, ItemsWith(FreeCl, V_030))}
                        ELSE {})] :
        S \in (SUBSET (FirstNumber..(FirstNumber + GapSpan - 1))) \ {{}}, plain \in BOOLEAN}

InitGaps == MainStart(GapDirectories)
SpecGaps == InitGaps /\ [][NextMain]_vars

\* the positions of the 'missing number' issues in the output
GapIssuePositions == {k \in 1..Len(output) : output[k].kind = "gap"}

\* the numbers strictly between the smallest and the largest prefix that no
\* file carries
MissingNumbers ==
    {n \in (FirstNumber - 1)..(FirstNumber + GapSpan) :
        /\ n \notin PrefixNumbers(files)
        /\ \E a \in PrefixNumbers(files) : a < n
        /\ \E b \in PrefixNumbers(files) : b > n}

\* C29: every missing number is covered by exactly one 'missing number'
\* issue, every such issue covers a maximal run of consecutive missing
\* numbers, the issues are in ascending order, and no present number is
\* reported.
C29_GapsCoveredOnce ==
    pc = "done" =>
        /\ \A n \in MissingNumbers :
              Cardinality({k \in GapIssuePositions :
                              output[k].nums[1] <= n /\ n <= output[k].nums[2]}) = 1
        /\ \A k \in GapIssuePositions :
              /\ output[k].nums[1] <= output[k].nums[2]
              /\ \A n \in output[k].nums[1]..output[k].nums[2] : n \in MissingNumbers
              /\ (output[k].nums[1] - 1) \notin MissingNumbers
              /\ (output[k].nums[2] + 1) \notin MissingNumbers
        /\ \A k, l \in GapIssuePositions : k < l => output[k].nums[2] < output[l].nums[1]

\* two separate runs are missing, one of them longer than one number
C29_Witness ==
    /\ pc = "done"
    /\ Cardinality(GapIssuePositions) = 2
    /\ \E k \in GapIssuePositions : output[k].nums[1] < output[k].nums[2]

(***************************************************************************)
(* Claim on the severity of a reconciliation mismatch (SpecVals)           *)
(***************************************************************************)

YanZhong == <<"yan2", "zhong4">>                              \* 严重

\* the tag cross_verify_reports puts before the issue of a mismatch:
\* [严重-数值] for a value difference, [严重-位数] for a digit-count difference
MismatchTag(outcome) ==
    IF outcome = "value" THEN <<"[">> \o YanZhong \o <<"-", "shu", "zhi2", "]", " ">>
    ELSE IF outcome = "digits" THEN <<"[">> \o YanZhong \o <<"-", "wei5", "shu", "]", " ">>
    ELSE <<>>

\* the severity a tag names: the text between "[" and the first "-" or "]"
SeverityOf(text) ==
    IF text = <<>> THEN <<>>
    ELSE SubSeq(text, 2,
                (CHOOSE i \in 2..Len(text) :
                    /\ text[i] \in {"-", "]"}
                    /\ \A j \in 2..(i - 1) : text[j] \notin {"-", "]"}) - 1)

\* C22 as stated: a value difference is reported as critical (严重), and a
\* digit-count difference in a tier of its own that is not critical.
C22_FormattingBelowCritical ==
    /\ tag = "value" => SeverityOf(MismatchTag(tag)) = YanZhong
    /\ tag = "digits" => SeverityOf(MismatchTag(tag)) # YanZhong

(***************************************************************************)
(* Claim on repeated issues (SpecNegative)                                 *)
(***************************************************************************)

KongBai   == <<"kong4", "bai2">>               \* 空白
V_Neg01   == <<"-", "0", ".", "1">>          \* -0.1
V_LtNeg01 == <<"<", "-", "0", ".", "1">>     \* <-0.1

\* an effluent sample and a quality-control sample, the latter listed by the
\* registry or not
NegativeDirectory(class, listed, w_val, qc_val) ==
    [orig |-> OrigRecord(<<Entry(Sid("W", 1), Plant(1) \o ChuChangShui)>>
                         \o (IF listed THEN <<Entry(Sid(class, 2), KongBai)>> ELSE <<>>),
                         <<[k |-> Sid("W", 1), v |-> <<[k |-> HunZhuoDu, v |-> w_val]>>],
                           [k |-> Sid(class, 2), v |-> <<[k |-> HunZhuoDu, v |-> qc_val]>>]>>),
     reports |-> {ReportFile(Numbered(N0189, Plant(1) \o ChuChangShui), Sid("W", 1),
                             <<[k |-> HunZhuoDu, v |-> w_val]>>)}]

NegativeDirectories ==
    {NegativeDirectory(class, listed, w_val, qc_val) :
        class \in {"K", "M"}, listed \in BOOLEAN,
        w_val \in {V_05, V_Neg01, V_ND}, qc_val \in {V_05, V_0, V_Neg01, V_LtNeg01}}

InitNegative == MainStart(NegativeDirectories)
SpecNegative == InitNegative /\ [][NextMain]_vars

\* the issues of the output that report a negative value of the item of the sample
NegativeReports(sid, name) ==
    {k \in 1..Len(output) : /\ output[k].kind \in {"negative", "qc_negative"}
                            /\ output[k].subject = sid
                            /\ output[k].item = name}

\* C23 as stated: the output holds no issue twice, and a negative value of a
\* quality-control (K or M) sample of the original record is reported by
\* exactly one issue.
C23_Deduplicated ==
    pc = "done" =>
        /\ \A i, j \in 1..Len(output) : i # j => output[i] # output[j]
        /\ \A s \in 1..Len(orig_test_data) :
              StartsWith(orig_test_data[s].k, <<"M">>) \/ StartsWith(orig_test_data[s].k, <<"K">>) =>
                 \A i \in 1..Len(orig_test_data[s].v) :
                    IsNegative(orig_test_data[s].v[i].v) =>
                       Cardinality(NegativeReports(orig_test_data[s].k, orig_test_data[s].v[i].k)) = 1

(***************************************************************************)
(* Claim on the samples the plant grouping keeps (SpecOrdering)            *)
(***************************************************************************)

\* the W-class registry samples of the plant taken on the distribution side
\* (distribution network or network terminus)
DistributionSamples(plant) ==
    {registry[i].sample_id :
        i \in {k \in 1..Len(registry) :
                  /\ StartsWith(registry[k].sample_id, <<"W">>)
                  /\ extract_plant_from_desc(registry[k].description) = plant
                  /\ classify_sample_water_type(registry[k].description)
                         \in {GuanWangShui, GuanWangMoShaoShui}}}

\* C28 as stated: every distribution-side sample of a plant is compared with
\* the plant's effluent sample: when its chlorine value exceeds the effluent
\* value times 1.1, the original-record check and the cross-report check each
\* emit the ordering issue with the two values.
C28_NoSampleDroppedByGrouping ==
    \A plant \in Plants, c \in 1..Len(ChlorineItems) :
        \A sid \in DistributionSamples(plant) :
            /\ (/\ OrigChecked
                /\ EffluentSample(plant) # <<>>
                /\ OrigNumber(EffluentSample(plant), ChlorineItems[c]).ok
                /\ OrigNumber(sid, ChlorineItems[c]).ok
                /\ OrigChlorineExceeds(OrigNumber(sid, ChlorineItems[c]).num,
                                       OrigNumber(EffluentSample(plant), ChlorineItems[c]).num))
               => \E k \in 1..Len(issues_original) :
                      /\ issues_original[k].kind = "order_orig"
                      /\ issues_original[k].subject = plant
                      /\ issues_original[k].item = ChlorineItems[c]
                      /\ issues_original[k].nums =
                             <<OrigNumber(sid, ChlorineItems[c]).num,
                               OrigNumber(EffluentSample(plant), ChlorineItems[c]).num>>
            /\ (/\ CrossChecked
                /\ EffluentSample(plant) # <<>>
                /\ ReportNumber(EffluentSample(plant), ChlorineItems[c]).ok
                /\ ReportNumber(sid, ChlorineItems[c]).ok
                /\ OrigChlorineExceeds(ReportNumber(sid, ChlorineItems[c]).num,
                                       ReportNumber(EffluentSample(plant), ChlorineItems[c]).num))
               => \E k \in 1..Len(issues_cross_logic) :
                      /\ issues_cross_logic[k].kind = "order_cross"
                      /\ issues_cross_logic[k].subject = plant
                      /\ issues_cross_logic[k].item = ChlorineItems[c]
                      /\ issues_cross_logic[k].nums =
                             <<ReportNumber(sid, ChlorineItems[c]).num,
                               ReportNumber(EffluentSample(plant), ChlorineItems[c]).num>>

(***************************************************************************)
(* Claim on the digit counts within a water type (SpecCohort)              *)
(***************************************************************************)

CohortSamples == 4

\* CohortSamples samples of different plants with one item each; all but the
\* last are effluent samples
CohortDirectory(last, vals) ==
    [orig |-> OrigRecord([i \in 1..CohortSamples |->
                             Entry(Sid("W", i),
                                   Plant(i) \o (IF i = CohortSamples THEN last ELSE ChuChangShui))],
                         [i \in 1..CohortSamples |->
                             [k |-> Sid("W", i), v |-> <<[k |-> HunZhuoDu, v |-> vals[i]]>>]]),
     reports |-> {ReportFile(Numbered(N0189, Plant(1) \o ChuChangShui), Sid("W", 1),
                             <<[k |-> HunZhuoDu, v |-> vals[1]]>>)}]

CohortDirectories ==
    {CohortDirectory(last, vals) :
        last \in {ChuChangShui, YuanShui},
        vals \in [1..CohortSamples -> {V_05, V_050, V_0123, V_ND}]}

InitCohort == MainStart(CohortDirectories)
SpecCohort == InitCohort /\ [][NextMain]_vars

\* the registry samples of the water type whose value of the item is numeric
\* and takes part in the rule
CohortOf(wtype, param) ==
    {i \in 1..Len(registry) :
        /\ classify_sample_water_type(registry[i].description) = wtype
        /\ HasKey(DictGet(orig_test_data, registry[i].sample_id, <<>>), param)
        /\ PassedToCountDigits(DictGet(DictGet(orig_test_data, registry[i].sample_id, <<>>),
                                       param, <<>>))}

DigitsOf(i, param) ==
    count_digits(DictGet(DictGet(orig_test_data, registry[i].sample_id, <<>>), param, <<>>))

\* the samples of the cohort whose value shows d digits
GroupOf(wtype, param, d) == {i \in CohortOf(wtype, param) : DigitsOf(i, param) = d}

DigitCounts(wtype, param) == {DigitsOf(i, param) : i \in CohortOf(wtype, param)}

\* the issues that flag the group of d digits
DigitReports(wtype, param, d) ==
    {k \in 1..Len(issues_original) :
        /\ issues_original[k].kind = "digits_orig"
        /\ issues_original[k].subject = wtype
        /\ issues_original[k].item = param
        /\ issues_original[k].nums[2] = d}

\* C21 as stated: when the values of an item within a water type show more
\* than one digit count, a most frequent count is not flagged and the group
\* of every other count is flagged by exactly one issue.
C21_MinorityGroupsFlagged ==
    OrigChecked =>
        \A wtype \in {ChuChangShui, YuanShui} :
            Cardinality(DigitCounts(wtype, HunZhuoDu)) > 1 =>
                \E m \in DigitCounts(wtype, HunZhuoDu) :
                    /\ \A d \in DigitCounts(wtype, HunZhuoDu) :
                           Cardinality(GroupOf(wtype, HunZhuoDu, d))
                               <= Cardinality(GroupOf(wtype, HunZhuoDu, m))
                    /\ DigitReports(wtype, HunZhuoDu, m) = {}
                    /\ \A d \in DigitCounts(wtype, HunZhuoDu) \ {m} :
                           Cardinality(DigitReports(wtype, HunZhuoDu, d)) = 1

(***************************************************************************)
(* Specification of the result pages of one report (SpecRows)              *)
(***************************************************************************)

\* int(float(str(a_val))) for a cell whose text is a decimal: the number
\* truncated towards zero
TruncatedSeq(a_val) ==
    IF ParseFloat(a_val).num >= 0
    THEN ParseFloat(a_val).num \div Pow10(Scale)
    ELSE 0 - ((0 - ParseFloat(a_val).num) \div Pow10(Scale))

\* the row becomes an item.  A cell is None or its text; read_xls_report_info
\* looks at the sheets of six columns or more only and takes the empty
\* string for a blank cell.
AcceptsRow(reader, ncols, a_val, b_val) ==
    /\ reader = "xls" => ncols >= 6
    /\ IF reader = "xls" THEN a_val \notin {<<>>, None} /\ b_val \notin {<<>>, None}
       ELSE a_val # None /\ b_val # None
    /\ ParseFloat(a_val).ok
    /\ 1 <= TruncatedSeq(a_val) /\ TruncatedSeq(a_val) <= 100
    /\ b_val # <<>>

\* the items of the rows of a page, in row order
RECURSIVE ItemsOfRows(_, _, _)
ItemsOfRows(reader, ncols, rows) ==
    IF rows = <<>> THEN <<>>
    ELSE (IF AcceptsRow(reader, ncols, Head(rows).a_val, Head(rows).b_val)
          THEN <<[seq |-> TruncatedSeq(Head(rows).a_val), name |-> Strip(Head(rows).b_val)]>>
          ELSE <<>>)
         \o ItemsOfRows(reader, ncols, Tail(rows))

MaxRows == 2

\* 2.5, 100.9, 0.9, 3.0, 101, -1 and cells that hold no number
SeqCells ==
    {None, <<>>, <<"1">>, <<"3", ".", "0">>, V_25, <<"1", "0", "0">>,
     <<"1", "0", "0", ".", "9">>, <<"1", "0", "1">>, V_0, <<"0", ".", "9">>,
     <<"-", "1">>, V_Wu}
NameCells == {None, <<>>, HunZhuoDu, <<" ">> \o FreeCl}

RowsOf(n) ==
    UNION {[1..k -> [a_val : SeqCells, b_val : NameCells]] : k \in 1..n}

InitRows ==
    /\ pc = "result_page"
    /\ locals \in {[reader |-> rd, ncols |-> nc, rows |-> rows] :
                      rd \in {"xlsx", "xls"}, nc \in {5, 6}, rows \in RowsOf(MaxRows)}
    /\ IdleOutsideCall

\* the loop over the rows of one result page
ReadResultPage ==
    /\ pc = "result_page"
    /\ locals' = [reader |-> locals.reader, ncols |-> locals.ncols, rows |-> locals.rows,
                  test_items |-> ItemsOfRows(locals.reader, locals.ncols, locals.rows)]
    /\ pc' = "page_read"
    /\ UNCHANGED outsideCall

NextRows == ReadResultPage

SpecRows == InitRows /\ [][NextRows]_vars

\* the cell holds an integer
IsIntegerCell(a_val) ==
    a_val # None /\ ParseFloat(a_val).ok /\ ParseFloat(a_val).num % Pow10(Scale) = 0

\* the rows the gate is stated to accept
RECURSIVE GatedRows(_)
GatedRows(rows) ==
    IF rows = <<>> THEN <<>>
    ELSE (IF /\ IsIntegerCell(Head(rows).a_val)
             /\ ParseFloat(Head(rows).a_val).num >= Pow10(Scale)
             /\ ParseFloat(Head(rows).a_val).num <= 100 * Pow10(Scale)
             /\ Head(rows).b_val \notin {None, <<>>}
          THEN <<Head(rows)>> ELSE <<>>)
         \o GatedRows(Tail(rows))

\* C24 as stated: in either reader the items of a result page are, in row
\* order, the rows whose column-1 cell holds an integer between 1 and 100 and
\* whose column-2 cell is not empty.
C24_IntegerGate ==
    pc = "page_read" =>
        /\ Len(locals.test_items) = Len(GatedRows(locals.rows))
        /\ \A i \in 1..Len(locals.test_items) :
               /\ locals.test_items[i].seq * Pow10(Scale)
                      = ParseFloat(GatedRows(locals.rows)[i].a_val).num
               /\ locals.test_items[i].name = Strip(GatedRows(locals.rows)[i].b_val)

(***************************************************************************)
(* Specification of the registry sheet of the original record (SpecRegistry) *)
(***************************************************************************)

\* re.match(r'[WKM]\d{6}C\d+', s): the pattern at the start of the string
matches_sid_pattern(s) ==
    /\ Len(s) >= 9
    /\ s[1] \in {"W", "K", "M"}
    /\ \A i \in 2..7 : IsDigit(s[i])
    /\ s[8] = "C"
    /\ IsDigit(s[9])

\* a cell is None or its text; None and the empty text are false
CellIsEmpty(v) == v = None \/ v = <<>>

\* the search of every row above r, the header rows included
RECURSIVE CompanyAboveAnyRow(_, _, _)
CompanyAboveAnyRow(rows, rr, data_start_row) ==
    IF rr < 1 THEN None
    ELSE IF ~CellIsEmpty(rows[rr].company) THEN rows[rr].company
    ELSE CompanyAboveAnyRow(rows, rr - 1, data_start_row)

\* for rr in range(r - 1, data_start_row - 1, -1): the first cell that holds
\* a value, from row rr upward to the data start row; None when there is none
RECURSIVE CompanyAbove(_, _, _)
CompanyAbove(rows, rr, data_start_row) ==
    IF rr < data_start_row THEN None
    ELSE IF ~CellIsEmpty(rows[rr].company) THEN rows[rr].company
    ELSE CompanyAbove(rows, rr - 1, data_start_row)

\* the company of the record of row r
CompanyOfRow(rows, r, data_start_row, company) ==
    IF CellIsEmpty(company) THEN <<>> ELSE Strip(company)

\* the registry of the rows r .. max_row
RECURSIVE RegistryFrom(_, _, _)
RegistryFrom(rows, r, data_start_row) ==
    IF r > Len(rows) THEN <<>>
    ELSE (IF ~CellIsEmpty(rows[r].sample_id) /\ matches_sid_pattern(Strip(rows[r].sample_id))
          THEN <<[sample_id |-> Strip(rows[r].sample_id),
                  company |-> CompanyOfRow(rows, r, data_start_row,
                                  IF CellIsEmpty(rows[r].company)
                                  THEN CompanyAbove(rows, r - 1, data_start_row)
                                  ELSE rows[r].company)]>>
          ELSE <<>>)
         \o RegistryFrom(rows, r + 1, data_start_row)

MaxSheetRows == 3

CompanyA == <<"A", "gong1", "si1">>            \* A公司
CompanyB == <<"B", "gong1", "si1">>            \* B公司

SidHeader == <<"yang4", "pin", "bian", "hao4">>              \* 样品编号
CompanyHeader == <<"bei", "jian", "dan1", "wei5">>          \* 被检单位

SidCells == {None, Sid("W", 1), <<" ">> \o Sid("K", 2) \o <<"x">>, <<"C", "1">>}
CompanyCells == {None, CompanyA, <<" ">> \o CompanyB}

\* the sheets of n rows whose header row, the one with 样品编号 in the
\* sample-id column, is row h
SheetsWithHeader(h, n) ==
    {[r \in 1..n |-> IF r = h THEN [sample_id |-> SidHeader, company |-> c] ELSE data[r]] :
        c \in {None, CompanyHeader},
        data \in [1..n -> [sample_id : SidCells, company : CompanyCells]]}

\* the header row is row 1 or 2 and the data start on the row after it
InitRegistry ==
    /\ pc = "registry_sheet"
    /\ locals \in UNION {{[rows |-> rows, data_start_row |-> h + 1] :
                              rows \in SheetsWithHeader(h, n)} :
                          h \in {1, 2}, n \in 2..MaxSheetRows}
    /\ IdleOutsideCall

\* the loop over the rows of the registry sheet
ReadRegistry ==
    /\ pc = "registry_sheet"
    /\ locals' = [rows |-> locals.rows, data_start_row |-> locals.data_start_row,
                  registry |-> RegistryFrom(locals.rows, locals.data_start_row,
                                            locals.data_start_row)]
    /\ pc' = "registry_read"
    /\ UNCHANGED outsideCall

NextRegistry == ReadRegistry

SpecRegistry == InitRegistry /\ [][NextRegistry]_vars

\* the rows at or below the data start row whose sample-id cell matches
RecordRows ==
    {r \in locals.data_start_row..Len(locals.rows) :
        /\ locals.rows[r].sample_id # None
        /\ matches_sid_pattern(Strip(locals.rows[r].sample_id))}

\* the r-th smallest row of RecordRows
RecordRow(i) ==
    CHOOSE r \in RecordRows : Cardinality({q \in RecordRows : q < r}) = i - 1

\* the rows from the data start row to r whose company cell holds a value
FilledUpTo(r) ==
    {q \in locals.data_start_row..r : locals.rows[q].company \notin {None, <<>>}}

Highest(S) == CHOOSE q \in S : \A p \in S : p <= q

\* C26: the registry holds one record per row at or below the data start row
\* whose sample-id cell matches the pattern, in row order; the record's
\* company is the text of the nearest company cell with a value at or above
\* the row and not above the data start row, and empty when there is none.
C26_RegistryExtraction ==
    pc = "registry_read" =>
        /\ Len(locals.registry) = Cardinality(RecordRows)
        /\ \A i \in 1..Len(locals.registry) :
               /\ locals.registry[i].sample_id = Strip(locals.rows[RecordRow(i)].sample_id)
               /\ locals.registry[i].company =
                      IF FilledUpTo(RecordRow(i)) = {} THEN <<>>
                      ELSE Strip(locals.rows[Highest(FilledUpTo(RecordRow(i)))].company)

\* below a header row that names a company, a record whose company cell is
\* blank has taken the company of a data row above it
C26_Witness ==
    /\ pc = "registry_read"
    /\ ~CellIsEmpty(locals.rows[locals.data_start_row - 1].company)
    /\ \E i \in 1..Len(locals.registry) :
           /\ locals.rows[RecordRow(i)].company = None
           /\ locals.registry[i].company \in {CompanyA, CompanyB}

(***************************************************************************)
(* Specification of the nitrogen rules of check_data_logic (SpecLogic)     *)
(***************************************************************************)

\* name == key or ((name in key or key in name) and not is_false_substring_match(name, key))
ParamMatches(name, key) ==
    \/ name = key
    \/ (In(name, key) \/ In(key, name)) /\ ~is_false_substring_match(name, key)

NoParam == [val |-> NaN, key |-> None, raw |-> None]

\* str(val).replace('＜', '<').strip()
ParamText(val) == Strip(ReplaceChar(val, "FLT", "<"))

\* the loop of get_param_value over the items from position k on, for one
\* name: the first matching key whose value starts with "<" (no number) or
\* parses as a number; NoParam when there is none
RECURSIVE ParamOfName(_, _, _)
ParamOfName(items, name, k) ==
    IF k > Len(items) THEN NoParam
    ELSE IF ParamMatches(name, items[k].k) /\ StartsWith(ParamText(items[k].v), <<"<">>)
         THEN [val |-> NaN, key |-> items[k].k, raw |-> ParamText(items[k].v)]
    ELSE IF ParamMatches(name, items[k].k) /\ ParseFloat(ParamText(items[k].v)).ok
         THEN [val |-> ParseFloat(ParamText(items[k].v)), key |-> items[k].k,
               raw |-> ParamText(items[k].v)]
    ELSE ParamOfName(items, name, k + 1)

\* get_param_value: the names are tried in turn; a name whose loop ends
\* without a return gives way to the next
RECURSIVE get_param_value(_, _)
get_param_value(items, names) ==
    IF names = <<>> THEN NoParam
    ELSE IF ParamOfName(items, Head(names), 1) # NoParam
         THEN ParamOfName(items, Head(names), 1)
    ELSE get_param_value(items, Tail(names))

ZongDan   == <<"zong", "dan">>                       \* 总氮
AnDan     == <<"an", "dan">>                         \* 氨氮
AnYiNJi   == <<"an", "(", "yi", "N", "ji", ")">>     \* 氨(以N计)
An        == <<"an">>                                \* 氨
XiaoSuanYan   == <<"xiao", "suan", "yan">>           \* 硝酸盐
YaXiaoSuanYan == <<"ya", "xiao", "suan", "yan">>     \* 亚硝酸盐

\* x or 0, for a looked-up number
OrZero(p) == IF p.val.ok THEN p.val.num ELSE 0

\* 4. total nitrogen against the sum of its components: comp > tn * 1.1 and comp > 0
NitrogenSumIssues(tn, nh3, no3, no2) ==
    IF /\ tn.val.ok
       /\ (OrZero(nh3) + OrZero(no3) + OrZero(no2)) * 10 > tn.val.num * 11
       /\ OrZero(nh3) + OrZero(no3) + OrZero(no2) > 0
    THEN <<Issue("nitrogen_sum", <<>>, <<>>, <<>>,
                 <<OrZero(nh3) + OrZero(no3) + OrZero(no2)>>,
                 <<nh3.raw, no3.raw, no2.raw, tn.raw>>, FALSE)>>
    ELSE <<>>

\* 6. nitrite against ammonia and against nitrate
NitriteIssues(nh3, no3, no2) ==
    IF no2.val.ok /\ no2.val.num > 0
    THEN (IF nh3.val.ok /\ nh3.val.num > 0 /\ no2.val.num > nh3.val.num * 2
          THEN <<Issue("nitrite_ammonia", <<>>, <<>>, <<>>, <<>>, <<no2.raw, nh3.raw>>, FALSE)>>
          ELSE <<>>)
         \o (IF no3.val.ok /\ no3.val.num > 0 /\ no2.val.num > no3.val.num * 2
             THEN <<Issue("nitrite_nitrate", <<>>, <<>>, <<>>, <<>>, <<no2.raw, no3.raw>>, FALSE)>>
             ELSE <<>>)
    ELSE <<>>

V_10 == <<"1", ".", "0">>     \* 1.0

\* the keys of the nitrogen items as a record names them
NitrateKeys == {XiaoSuanYan \o <<"dan">>, XiaoSuanYan \o <<"(", "yi", "N", "ji", ")">>}
NitriteKeys == {YaXiaoSuanYan \o <<"dan">>, YaXiaoSuanYan \o <<"(", "yi", "N", "ji", ")">>}
NitrogenValues == {V_05, V_10, V_25, V_Lt005, V_ND}

\* the orders of a set of keys
OrdersOf(keys) ==
    {o \in [1..Cardinality(keys) -> keys] : \A i, j \in 1..Cardinality(keys) : o[i] = o[j] => i = j}

\* the items of one sample: total nitrogen, nitrate and nitrite, and ammonia
\* or not, in any order
NitrogenItems ==
    UNION {UNION {{[i \in 1..Len(o) |->
                       [k |-> o[i],
                        v |-> IF o[i] = ZongDan THEN tnv
                              ELSE IF o[i] = AnDan THEN V_05
                              ELSE IF o[i] \in NitrateKeys THEN no3v ELSE no2v]] :
                     tnv \in {V_10, V_25}, no3v \in NitrogenValues, no2v \in NitrogenValues} :
                  o \in OrdersOf({ZongDan, k3, k2} \cup extra)} :
           k3 \in NitrateKeys, k2 \in NitriteKeys, extra \in {{}, {AnDan}}}

InitLogic ==
    /\ pc = "check_data_logic"
    /\ locals \in {[items |-> items] : items \in NitrogenItems}
    /\ IdleOutsideCall

\* check_data_logic on items that hold nitrogen parameters only: the lookups
\* of rules 4 and 6 and their issues
CheckDataLogic ==
    /\ pc = "check_data_logic"
    /\ locals' = [items |-> locals.items,
                  tn  |-> get_param_value(locals.items, <<ZongDan>>),
                  nh3 |-> get_param_value(locals.items, <<AnDan, AnYiNJi, An>>),
                  no3 |-> get_param_value(locals.items, <<XiaoSuanYan>>),
                  no2 |-> get_param_value(locals.items, <<YaXiaoSuanYan>>),
                  issues |->
                      NitrogenSumIssues(get_param_value(locals.items, <<ZongDan>>),
                                        get_param_value(locals.items, <<AnDan, AnYiNJi, An>>),
                                        get_param_value(locals.items, <<XiaoSuanYan>>),
                                        get_param_value(locals.items, <<YaXiaoSuanYan>>))
                      \o NitriteIssues(get_param_value(locals.items, <<AnDan, AnYiNJi, An>>),
                                       get_param_value(locals.items, <<XiaoSuanYan>>),
                                       get_param_value(locals.items, <<YaXiaoSuanYan>>))]
    /\ pc' = "logic_checked"
    /\ UNCHANGED outsideCall

NextLogic == CheckDataLogic

SpecLogic == InitLogic /\ [][NextLogic]_vars

\* the item of the dictionary whose key starts with 硝酸盐
NitrateItem ==
    locals.items[CHOOSE i \in 1..Len(locals.items) : StartsWith(locals.items[i].k, XiaoSuanYan)]

\* C27 as stated: for a dictionary that holds a nitrate item and a nitrite
\* item, in every order of its keys, what check_data_logic uses as nitrate is
\* the nitrate item: its key, and its value when the value is a number.
C27_NitrateIsNitrate ==
    pc = "logic_checked" =>
        /\ locals.no3.key \in {None, NitrateItem.k}
        /\ ParseFloat(ParamText(NitrateItem.v)).ok =>
               locals.no3.val = ParseFloat(ParamText(NitrateItem.v))

====
